---- MODULE Spec2Model ----
(***************************************************************************)
(* Model of src/src/server.ts: the PercifyAvatarAgent state store          *)
(* (onStart, getAvatarState, saveAvatarProfile, saveMemory), the document  *)
(* matcher (researchWeb), the system prompt, the turn started by           *)
(* onChatMessage or executeTask (cleaning and resolving the history, then  *)
(* the bounded model/tool step loop) and the worker's fetch handler.       *)
(*                                                                         *)
(* Conventions.                                                            *)
(*  - A JavaScript value that may be undefined is a sequence of length 0   *)
(*    (undefined) or 1 (the value): Opt(S).                                *)
(*  - generateId() is a fresh-name supply: the counter nextId.             *)
(*  - new Date() is the logical clock now, advanced by every saveMemory.   *)
(*  - Strings handled by researchWeb are sequences of one-character        *)
(*    strings, so that includes / toLowerCase / split are computed.        *)
(***************************************************************************)
EXTENDS Integers, Sequences, FiniteSets, TLC

VARIABLES
  state,      \* this.state, the persisted slot of the agent
  pc,         \* "boot" before onStart has run, "ready" after
  nextId,     \* next value generateId() hands out
  now,        \* logical clock read by new Date()
  lastCall,   \* the last handler that ran, with its arguments
  ret,        \* what that handler returned (an array in the field items)
  prev,       \* this.state as it was when that handler was entered
  created,    \* every MemoryItem ever created, in creation order
  phase,      \* turn: "IDLE", "RESOLVING", "AWAIT_MODEL", "EXECUTE_TOOLS", "DONE"
  stepCount,  \* steps recorded by streamText in the current turn
  modelCalls, \* invocations of the inference collaborator in the current turn
  toolExecs,  \* tool handlers executed in the current turn
  pending,    \* tool calls returned by the collaborator, not yet executed
  aborted,    \* the abortSignal given to onChatMessage has fired
  turns,      \* turns started so far
  messages,   \* this.messages, the conversation history
  cleaned,    \* cleanedMessages of the turn, while processToolCalls is awaited
  modelInput, \* what streamText was called with: <<>> or <<[system, messages]>>
  answers,    \* the first result researchWeb gave to every query asked
  procs,      \* the tool handlers of one step that run concurrently
  serial      \* this.state had those handlers run one after the other

vars == <<state, pc, nextId, now, lastCall, ret, prev, created,
          phase, stepCount, modelCalls, toolExecs, pending, aborted, turns,
          messages, cleaned, modelInput, answers, procs, serial>>

storeVars == <<state, pc, nextId, now, lastCall, ret, prev, created>>
turnVars == <<phase, stepCount, modelCalls, toolExecs, pending, aborted, turns>>
pipeVars == <<messages, cleaned, modelInput>>
sideVars == <<answers, procs, serial>>

----------------------------------------------------------------------------
(* Bounds of the model and constants of the program. *)

\* saveMemory calls explored by SpecMemory: enough to pass the cap.
MaxSaves == 53
\* saveMemory calls whose type and content are chosen freely in SpecMemory.
MaxVaried == 3
\* saveMemory calls explored beside saveAvatarProfile in Spec.
MaxStoreSaves == 1

\* server.ts:151, the memory cap.
MemCap == 50
\* server.ts:162 and :107, the size of the recent-memories view.
RecentCount == 5
\* server.ts:392, stepCountIs(10).
StepCap == 10

----------------------------------------------------------------------------
(* JavaScript helpers. *)

Opt(S) == {<<>>} \cup {<<v>> : v \in S}

Min(a, b) == IF a < b THEN a ELSE b

Max(a, b) == IF a > b THEN a ELSE b

\* Array.prototype.slice(k) for k <= 0: the last -k elements (all when shorter).
SliceFrom(s, k) == SubSeq(s, Max(Len(s) + k, 0) + 1, Len(s))

\* Array.prototype.slice(0, k): the first k elements.
SliceTo(s, k) == SubSeq(s, 1, Min(Len(s), k))

\* x || y on optional strings: x when x is a non-empty string, else y.
OrStr(x, y) == IF Len(x) = 1 /\ x[1] # "" THEN x ELSE y

\* x ?? y, nullish coalescing: x when x is defined, else y.
OrDefined(x, y) == IF Len(x) = 1 THEN x ELSE y

\* x || y on optional arrays and objects: every array or object is truthy.
OrObj(x, y) == OrDefined(x, y)

\* x || y on optional ids; generateId() never returns the empty string.
OrId(x, y) == OrDefined(x, y)

----------------------------------------------------------------------------
(* Types (server.ts:25-49) and the values the model draws inputs from. *)

Tones == {"casual", "professional", "playful", "technical"}

MemoryTypes == {"task", "preference", "note"}

Names == {"", "Ada"}

Bios == {"", "dev"}

InputTones == {"playful"}

TagLists == {<<>>, <<"ts">>}

InputIds == {77}

Contents == {"a", "b"}

\* Partial<AvatarProfile>: every field may be absent.
PartialProfiles ==
  [id : Opt(InputIds), displayName : Opt(Names), bio : Opt(Bios),
   tone : Opt(InputTones), expertiseTags : Opt(TagLists)]

EmptyPartial ==
  [id |-> <<>>, displayName |-> <<>>, bio |-> <<>>, tone |-> <<>>,
   expertiseTags |-> <<>>]

\* initialState (server.ts:71-74).
initialState ==
  [kind |-> "object", avatar |-> <<>>, memories |-> <<>>, memoriesIsArray |-> TRUE]

NoCall == [op |-> "none"]

----------------------------------------------------------------------------
(* State store. *)

\* currentAvatar?.f: the field f of the stored avatar, undefined without one.
CurField(cur, f) == IF Len(cur) = 1 THEN <<cur[1][f]>> ELSE <<>>

\* A bug saveAvatarProfile could have: the id of the input wins.
MergedIdFromInput(cur, input, fresh) ==
  OrId(input.id, OrId(CurField(cur, "id"), <<fresh>>))[1]

\* server.ts:119  id: currentAvatar?.id || generateId()
MergedId(cur, input, fresh) == OrId(CurField(cur, "id"), <<fresh>>)[1]

\* server.ts:120  displayName: input || current || "Unnamed Avatar"
MergedDisplayName(cur, input) ==
  OrStr(input.displayName,
        OrStr(CurField(cur, "displayName"), <<"Unnamed Avatar">>))[1]

\* server.ts:121  bio: input || current || ""
MergedBio(cur, input) ==
  OrStr(input.bio, OrStr(CurField(cur, "bio"), <<"">>))[1]

\* A bug saveAvatarProfile could have: the stored tone is not consulted.
MergedToneForgetful(cur, input) == OrStr(input.tone, <<"casual">>)[1]

\* server.ts:122  tone: input || current || "casual"
MergedTone(cur, input) ==
  OrStr(input.tone, OrStr(CurField(cur, "tone"), <<"casual">>))[1]

\* server.ts:123  expertiseTags: input || current || []
MergedTags(cur, input) ==
  OrObj(input.expertiseTags,
        OrObj(CurField(cur, "expertiseTags"), <<(<<>>)>>))[1]

\* server.ts:118-124  updatedAvatar
UpdatedAvatar(cur, input, fresh) ==
  [id |-> MergedId(cur, input, fresh),
   displayName |-> MergedDisplayName(cur, input),
   bio |-> MergedBio(cur, input),
   tone |-> MergedTone(cur, input),
   expertiseTags |-> MergedTags(cur, input)]

\* server.ts:141-146  newMemory
NewMemory(id, ts, type, content) ==
  [id |-> id, createdAt |-> ts, type |-> type, content |-> content]

\* A bug saveMemory could have: the newest entries are the ones dropped.
TrimKeepOldest(ms) == IF Len(ms) > MemCap THEN SliceTo(ms, MemCap) ELSE ms

\* server.ts:151-154  cap at 50, slice(-50)
TrimMemories(ms) == IF Len(ms) > MemCap THEN SliceFrom(ms, 0 - MemCap) ELSE ms

\* A bug saveMemory could have: the view is taken from the front of the list.
OldestMemories(ms) == SliceTo(ms, RecentCount)

\* server.ts:162  updatedMemories.slice(-5)
RecentMemories(ms) == SliceFrom(ms, 0 - RecentCount)

\* server.ts:104-109  getAvatarState
GetAvatarState(s) ==
  [avatar |-> s.avatar, memories |-> SliceFrom(s.memories, 0 - RecentCount)]

\* The reset the specification describes: any malformed slot becomes the default.
StartCheckResetAll(s) ==
  IF s.kind # "object" \/ ~s.memoriesIsArray THEN initialState ELSE s

\* server.ts:83-98  the two checks of onStart, in order
StartCheck(s) ==
  LET s1 == IF s.kind # "object"
            THEN [kind |-> "object", avatar |-> <<>>, memories |-> <<>>,
                  memoriesIsArray |-> TRUE]
            ELSE s
  IN  IF ~s1.memoriesIsArray
      THEN [s1 EXCEPT !.memories = <<>>, !.memoriesIsArray = TRUE]
      ELSE s1

----------------------------------------------------------------------------
(* Handlers of the state store as actions. *)

OnStart ==
  /\ pc = "boot"
  /\ state' = StartCheck(state)
  /\ pc' = "ready"
  /\ lastCall' = [op |-> "onStart"]
  /\ ret' = <<>>
  /\ prev' = state
  /\ UNCHANGED <<nextId, now, created>>
  /\ UNCHANGED turnVars
  /\ UNCHANGED pipeVars
  /\ UNCHANGED sideVars

GetAvatarStateCall ==
  /\ pc = "ready"
  /\ lastCall' = [op |-> "getAvatarState"]
  /\ ret' = GetAvatarState(state)
  /\ prev' = state
  /\ UNCHANGED <<state, pc, nextId, now, created>>
  /\ UNCHANGED turnVars
  /\ UNCHANGED pipeVars
  /\ UNCHANGED sideVars

\* A bug saveAvatarProfile could have: the new state is built without the
\* spread of this.state.
DoSaveAvatarProfileAlone(input) ==
  LET cur == state.avatar
      updatedAvatar == UpdatedAvatar(cur, input, nextId)
  IN  /\ state' = [initialState EXCEPT !.avatar = <<updatedAvatar>>]
      /\ nextId' = IF Len(cur) = 1 THEN nextId ELSE nextId + 1
      /\ lastCall' = [op |-> "saveAvatarProfile", input |-> input]
      /\ ret' = updatedAvatar
      /\ prev' = state
      /\ UNCHANGED <<pc, now, created>>

\* The effect of saveAvatarProfile(input) on the store variables.
DoSaveAvatarProfile(input) ==
  LET cur == state.avatar
      updatedAvatar == UpdatedAvatar(cur, input, nextId)
  IN  /\ state' = [state EXCEPT !.avatar = <<updatedAvatar>>]
      /\ nextId' = IF Len(cur) = 1 THEN nextId ELSE nextId + 1
      /\ lastCall' = [op |-> "saveAvatarProfile", input |-> input]
      /\ ret' = updatedAvatar
      /\ prev' = state
      /\ UNCHANGED <<pc, now, created>>

\* The effect of saveMemory(type, content) on the store variables.
DoSaveMemory(type, content) ==
  LET newMemory == NewMemory(nextId, now, type, content)
      updatedMemories == TrimMemories(Append(state.memories, newMemory))
  IN  /\ state' = [state EXCEPT !.memories = updatedMemories]
      /\ nextId' = nextId + 1
      /\ now' = now + 1
      /\ created' = Append(created, [id |-> nextId, createdAt |-> now,
                                     type |-> type, content |-> content])
      /\ lastCall' = [op |-> "saveMemory", type |-> type, content |-> content]
      /\ ret' = [items |-> RecentMemories(updatedMemories)]
      /\ prev' = state
      /\ UNCHANGED pc

SaveAvatarProfile ==
  /\ pc = "ready"
  /\ \E input \in PartialProfiles : DoSaveAvatarProfile(input)
  /\ UNCHANGED turnVars
  /\ UNCHANGED pipeVars
  /\ UNCHANGED sideVars

\* saveMemory beside saveAvatarProfile, a bounded number of times.
SaveMemory ==
  /\ pc = "ready"
  /\ Len(created) < MaxStoreSaves
  /\ DoSaveMemory("task", "b")
  /\ UNCHANGED turnVars
  /\ UNCHANGED pipeVars
  /\ UNCHANGED sideVars

\* The arguments the n-th saveMemory of SpecMemory is called with.
MemoryInputs(n) ==
  IF n < MaxVaried THEN MemoryTypes \X Contents ELSE {<<"note", "a">>}

\* saveMemory called over and over, past the cap.
SaveMemoryRun ==
  /\ pc = "ready"
  /\ Len(created) < MaxSaves
  /\ \E in \in MemoryInputs(Len(created)) : DoSaveMemory(in[1], in[2])
  /\ UNCHANGED turnVars
  /\ UNCHANGED pipeVars
  /\ UNCHANGED sideVars

----------------------------------------------------------------------------
(* Initial states. *)

TurnInit ==
  /\ phase = "IDLE"
  /\ stepCount = 0
  /\ modelCalls = 0
  /\ toolExecs = 0
  /\ pending = <<>>
  /\ aborted = FALSE
  /\ turns = 0
  /\ messages = <<>>
  /\ cleaned = <<>>
  /\ modelInput = <<>>
  /\ answers = {}
  /\ procs = <<>>
  /\ serial = <<>>

\* A freshly constructed agent whose startup check has run.
InitFresh ==
  /\ state = initialState
  /\ pc = "ready"
  /\ nextId = 1
  /\ now = 1
  /\ lastCall = NoCall
  /\ ret = <<>>
  /\ prev = initialState
  /\ created = <<>>
  /\ TurnInit

\* Avatars an earlier run of the agent can have stored.
StoredAvatars ==
  {[id |-> 0, displayName |-> n, bio |-> b, tone |-> t, expertiseTags |-> g] :
     n \in {"Unnamed Avatar", "Ada"}, b \in Bios, t \in {"casual", "playful"},
     g \in TagLists}

\* Memory lists an earlier run of the agent can have stored.
StoredMemories ==
  {<<>>, <<[id |-> -1, createdAt |-> 0, type |-> "note", content |-> "a"]>>}

\* What the persisted slot can hold when the agent starts: nothing, a value
\* that is no object, an object whose memories is no array, a well-formed state.
PersistedSlots ==
  {[kind |-> k, avatar |-> <<>>, memories |-> <<>>, memoriesIsArray |-> FALSE] :
     k \in {"null", "primitive"}}
  \cup {[kind |-> "object", avatar |-> a, memories |-> <<>>, memoriesIsArray |-> FALSE] :
          a \in Opt(StoredAvatars)}
  \cup {[kind |-> "object", avatar |-> a, memories |-> m, memoriesIsArray |-> TRUE] :
          a \in Opt(StoredAvatars), m \in StoredMemories}

InitBoot ==
  /\ state \in PersistedSlots
  /\ pc = "boot"
  /\ nextId = 1
  /\ now = 1
  /\ lastCall = NoCall
  /\ ret = <<>>
  /\ prev = state
  /\ created = <<>>
  /\ TurnInit

----------------------------------------------------------------------------
(* Specifications. *)

\* The store from startup on: onStart, then any sequence of handler calls.
Next == OnStart \/ GetAvatarStateCall \/ SaveAvatarProfile \/ SaveMemory

Spec == InitBoot /\ [][Next]_vars

\* saveMemory from the initial state on.
NextMemory == SaveMemoryRun \/ GetAvatarStateCall

SpecMemory == InitFresh /\ [][NextMemory]_vars

----------------------------------------------------------------------------
(* Claims about the state store. *)

ProfileFields == {"displayName", "bio", "tone", "expertiseTags"}

\* C1: after every saveMemory from the initial state the stored list has at
\* most 50 items and is exactly the last min(n, 50) of the n items created so
\* far, in creation order, each with the type and content it was created with.
C1_MemoryCap ==
  LET m == state.memories
      n == Len(created)
  IN  /\ Len(m) <= MemCap
      /\ Len(m) = Min(n, MemCap)
      /\ \A i \in 1..Len(m) : m[i] = created[n - Len(m) + i]

\* C1 witness: two items of freely chosen type and content have been evicted.
C1_Witness ==
  /\ lastCall.op = "saveMemory"
  /\ Len(created) = MemCap + 2
  /\ Len(state.memories) = MemCap
  /\ created[1].type = "task"
  /\ created[2].content = "b"
  /\ state.memories[1] = created[3]

\* C7: saveMemory returns the last min(5, len) elements of the list it stored,
\* in order; the last of them is the item just created; and the result is the
\* memories view getAvatarState gives right after the call.
C7_ReturnsRecent ==
  lastCall.op = "saveMemory" =>
    LET m == state.memories
        n == Min(RecentCount, Len(m))
    IN  /\ Len(ret.items) = n
        /\ \A i \in 1..n : ret.items[i] = m[Len(m) - n + i]
        /\ ret.items[Len(ret.items)] = created[Len(created)]
        /\ ret.items[Len(ret.items)].type = lastCall.type
        /\ ret.items[Len(ret.items)].content = lastCall.content
        /\ ret.items = GetAvatarState(state).memories

\* C7 witness: a call that evicted, returning 5 of the 50 stored items.
C7_Witness ==
  /\ lastCall.op = "saveMemory"
  /\ Len(created) > MemCap
  /\ Len(state.memories) = MemCap
  /\ Len(ret.items) = RecentCount
  /\ ret.items[1] = state.memories[MemCap - RecentCount + 1]

\* C2: saveAvatarProfile keeps the stored value of every field the input omits
\* (so the empty input changes nothing, the id included), and without a stored
\* avatar the omitted fields take the defaults "Unnamed Avatar", "", casual, [].
C2_MergeOmitted ==
  lastCall.op = "saveAvatarProfile" =>
    LET input == lastCall.input
        old == prev.avatar
    IN  /\ Len(state.avatar) = 1
        /\ ret = state.avatar[1]
        /\ Len(old) = 1 =>
             /\ \A f \in ProfileFields :
                  Len(input[f]) = 0 => state.avatar[1][f] = old[1][f]
             /\ input = EmptyPartial => state.avatar = old
        /\ Len(old) = 0 =>
             /\ Len(input.displayName) = 0 =>
                  state.avatar[1].displayName = "Unnamed Avatar"
             /\ Len(input.bio) = 0 => state.avatar[1].bio = ""
             /\ Len(input.tone) = 0 => state.avatar[1].tone = "casual"
             /\ input.tone = <<"playful">> => state.avatar[1].tone = "playful"
             /\ Len(input.expertiseTags) = 0 =>
                  state.avatar[1].expertiseTags = <<>>

\* C2 witness: the empty input on a stored avatar none of whose fields is a default.
C2_Witness ==
  /\ lastCall.op = "saveAvatarProfile"
  /\ lastCall.input = EmptyPartial
  /\ Len(prev.avatar) = 1
  /\ prev.avatar[1].displayName = "Ada"
  /\ prev.avatar[1].bio = "dev"
  /\ prev.avatar[1].tone = "playful"
  /\ prev.avatar[1].expertiseTags = <<"ts">>

\* C3 as stated: onStart turns every malformed slot (no object, or memories
\* no array, whatever else it holds) into {avatar: undefined, memories: []}
\* and leaves a well-formed state unchanged.
C3_ResetsAllMalformed ==
  lastCall.op = "onStart" =>
    IF prev.kind # "object" \/ ~prev.memoriesIsArray
    THEN state = initialState
    ELSE state = prev

\* C3 amended: a slot that is no object becomes {avatar: undefined,
\* memories: []}; an object whose memories is no array gets memories = [] and
\* keeps its other fields, a stored avatar included; a well-formed state is
\* left unchanged.
C3_StartCheck ==
  lastCall.op = "onStart" =>
    /\ pc = "ready"
    /\ prev.kind # "object" => state = initialState
    /\ (prev.kind = "object" /\ ~prev.memoriesIsArray) =>
         /\ state.kind = "object"
         /\ state.memoriesIsArray
         /\ state.memories = <<>>
         /\ state.avatar = prev.avatar
    /\ (prev.kind = "object" /\ prev.memoriesIsArray) => state = prev

\* C3 witness: memories was no array beside a stored avatar, which survives.
C3_Witness ==
  /\ lastCall.op = "onStart"
  /\ prev.kind = "object"
  /\ ~prev.memoriesIsArray
  /\ Len(prev.avatar) = 1
  /\ state.avatar = prev.avatar
  /\ state.memories = <<>>

\* C6: the avatar id is generated by the saveAvatarProfile that creates the
\* avatar (a fresh id, never the id of the input) and no later step changes it.
C6_IdStable ==
  [][/\ Len(state.avatar) = 1 =>
          /\ Len(state'.avatar) = 1
          /\ state'.avatar[1].id = state.avatar[1].id
     /\ (Len(state.avatar) = 0 /\ Len(state'.avatar) = 1) =>
          /\ lastCall'.op = "saveAvatarProfile"
          /\ state'.avatar[1].id = nextId
          /\ nextId' = nextId + 1]_vars

\* C6 witness: an input carrying an id was merged into a stored avatar, after
\* a saveMemory, and the stored id is still the one generated.
C6_Witness ==
  /\ lastCall.op = "saveAvatarProfile"
  /\ Len(lastCall.input.id) = 1
  /\ Len(prev.avatar) = 1
  /\ Len(created) > 0
  /\ state.avatar[1].id = prev.avatar[1].id
  /\ state.avatar[1].id # lastCall.input.id[1]

\* C8: every field present in the input of saveAvatarProfile takes exactly
\* the supplied value in the stored and the returned avatar, the empty string
\* and the empty list included.
C8_PresentFieldWins ==
  lastCall.op = "saveAvatarProfile" =>
    \A f \in ProfileFields :
      Len(lastCall.input[f]) = 1 =>
        /\ state.avatar[1][f] = lastCall.input[f][1]
        /\ ret[f] = lastCall.input[f][1]

----------------------------------------------------------------------------
(* Document catalog (server.ts:169-220), as sequences of characters. *)

\* server.ts:170-174  percifyDocs.avatar
Doc_avatar ==
  [key |-> <<"a", "v", "a", "t", "a", "r">>,
   title |-> <<"A", "v", "a", "t", "a", "r", " ", "S", "e", "t", "u", "p", " ", "G",
              "u", "i", "d", "e">>,
   content |->
     <<"P", "e", "r", "c", "i", "f", "y", " ", "A", "v", "a", "t", "a", "r",
       " ", "C", "o", "-", "P", "i", "l", "o", "t", " ", "l", "e", "t", "s",
       " ", "y", "o", "u", " ", "c", "r", "e", "a", "t", "e", " ", "a", " ",
       "p", "e", "r", "s", "o", "n", "a", "l", "i", "z", "e", "d", " ", "A",
       "I", " ", "p", "e", "r", "s", "o", "n", "a", ".", " ", "Y", "o", "u",
       "r", " ", "a", "v", "a", "t", "a", "r", " ", "i", "n", "c", "l", "u",
       "d", "e", "s", ":", " ", "d", "i", "s", "p", "l", "a", "y", "N", "a",
       "m", "e", " ", "(", "y", "o", "u", "r", " ", "p", "r", "e", "f", "e",
       "r", "r", "e", "d", " ", "n", "a", "m", "e", ")", ",", " ", "b", "i",
       "o", " ", "(", "a", " ", "s", "h", "o", "r", "t", " ", "d", "e", "s",
       "c", "r", "i", "p", "t", "i", "o", "n", ")", ",", " ", "t", "o", "n",
       "e", " ", "(", "c", "a", "s", "u", "a", "l", "/", "p", "r", "o", "f",
       "e", "s", "s", "i", "o", "n", "a", "l", "/", "p", "l", "a", "y", "f",
       "u", "l", "/", "t", "e", "c", "h", "n", "i", "c", "a", "l", ")", ",",
       " ", "a", "n", "d", " ", "e", "x", "p", "e", "r", "t", "i", "s", "e",
       "T", "a", "g", "s", " ", "(", "y", "o", "u", "r", " ", "a", "r", "e",
       "a", "s", " ", "o", "f", " ", "e", "x", "p", "e", "r", "t", "i", "s",
       "e", ")", ".", " ", "U", "s", "e", " ", "t", "h", "e", " ", "c", "o",
       "m", "m", "a", "n", "d", " ", "'", "c", "r", "e", "a", "t", "e", " ",
       "m", "y", " ", "a", "v", "a", "t", "a", "r", " ", "a", "s", " ", "[",
       "n", "a", "m", "e", "]", "'", " ", "o", "r", " ", "'", "s", "e", "t",
       " ", "m", "y", " ", "t", "o", "n", "e", " ", "t", "o", " ", "p", "r",
       "o", "f", "e", "s", "s", "i", "o", "n", "a", "l", "'", " ", "t", "o",
       " ", "c", "u", "s", "t", "o", "m", "i", "z", "e", " ", "y", "o", "u",
       "r", " ", "e", "x", "p", "e", "r", "i", "e", "n", "c", "e", ".", " ",
       "A", "v", "a", "t", "a", "r", "s", " ", "p", "e", "r", "s", "i", "s",
       "t", " ", "a", "c", "r", "o", "s", "s", " ", "s", "e", "s", "s", "i",
       "o", "n", "s", " ", "u", "s", "i", "n", "g", " ", "C", "l", "o", "u",
       "d", "f", "l", "a", "r", "e", " ", "D", "u", "r", "a", "b", "l", "e",
       " ", "O", "b", "j", "e", "c", "t", "s", ".">>,
   path |-> <<"/", "d", "o", "c", "s", "/", "a", "v", "a", "t", "a", "r", "-", "g",
             "u", "i", "d", "e">>]

\* server.ts:175-179  percifyDocs.memory
Doc_memory ==
  [key |-> <<"m", "e", "m", "o", "r", "y">>,
   title |-> <<"M", "e", "m", "o", "r", "y", " ", "S", "y", "s", "t", "e", "m">>,
   content |->
     <<"P", "e", "r", "c", "i", "f", "y", " ", "s", "t", "o", "r", "e", "s",
       " ", "t", "h", "r", "e", "e", " ", "t", "y", "p", "e", "s", " ", "o",
       "f", " ", "m", "e", "m", "o", "r", "i", "e", "s", ":", " ", "t", "a",
       "s", "k", "s", " ", "(", "t", "h", "i", "n", "g", "s", " ", "t", "o",
       " ", "d", "o", ")", ",", " ", "p", "r", "e", "f", "e", "r", "e", "n",
       "c", "e", "s", " ", "(", "y", "o", "u", "r", " ", "l", "i", "k", "e",
       "s", "/", "s", "e", "t", "t", "i", "n", "g", "s", ")", ",", " ", "a",
       "n", "d", " ", "n", "o", "t", "e", "s", " ", "(", "g", "e", "n", "e",
       "r", "a", "l", " ", "i", "n", "f", "o", "r", "m", "a", "t", "i", "o",
       "n", ")", ".", " ", "S", "a", "y", " ", "'", "r", "e", "m", "e", "m",
       "b", "e", "r", " ", "t", "h", "a", "t", " ", "I", " ", "p", "r", "e",
       "f", "e", "r", " ", "d", "a", "r", "k", " ", "m", "o", "d", "e", "'",
       " ", "o", "r", " ", "'", "n", "o", "t", "e", ":", " ", "m", "e", "e",
       "t", "i", "n", "g", " ", "a", "t", " ", "3", "p", "m", "'", ".", " ",
       "M", "e", "m", "o", "r", "i", "e", "s", " ", "a", "r", "e", " ", "s",
       "t", "o", "r", "e", "d", " ", "p", "e", "r", "s", "i", "s", "t", "e",
       "n", "t", "l", "y", " ", "a", "n", "d", " ", "l", "i", "m", "i", "t",
       "e", "d", " ", "t", "o", " ", "5", "0", " ", "i", "t", "e", "m", "s",
       " ", "w", "i", "t", "h", " ", "a", "u", "t", "o", "m", "a", "t", "i",
       "c", " ", "c", "l", "e", "a", "n", "u", "p", " ", "o", "f", " ", "o",
       "l", "d", "e", "s", "t", " ", "e", "n", "t", "r", "i", "e", "s", ".",
       " ", "A", "c", "c", "e", "s", "s", " ", "r", "e", "c", "e", "n", "t",
       " ", "m", "e", "m", "o", "r", "i", "e", "s", " ", "a", "n", "y", "t",
       "i", "m", "e", " ", "-", " ", "t", "h", "e", "y", "'", "r", "e", " ",
       "i", "n", "c", "l", "u", "d", "e", "d", " ", "i", "n", " ", "y", "o",
       "u", "r", " ", "a", "v", "a", "t", "a", "r", " ", "c", "o", "n", "t",
       "e", "x", "t", ".">>,
   path |-> <<"/", "d", "o", "c", "s", "/", "m", "e", "m", "o", "r", "y", "-", "s",
             "y", "s", "t", "e", "m">>]

\* server.ts:180-184  percifyDocs.tone
Doc_tone ==
  [key |-> <<"t", "o", "n", "e">>,
   title |-> <<"T", "o", "n", "e", " ", "C", "u", "s", "t", "o", "m", "i", "z", "a",
              "t", "i", "o", "n">>,
   content |->
     <<"C", "h", "o", "o", "s", "e", " ", "f", "r", "o", "m", " ", "4", " ",
       "t", "o", "n", "e", " ", "s", "t", "y", "l", "e", "s", ":", " ", "C",
       "A", "S", "U", "A", "L", " ", "(", "f", "r", "i", "e", "n", "d", "l",
       "y", ",", " ", "r", "e", "l", "a", "x", "e", "d", ",", " ", "c", "o",
       "n", "v", "e", "r", "s", "a", "t", "i", "o", "n", "a", "l", ")", ",",
       " ", "P", "R", "O", "F", "E", "S", "S", "I", "O", "N", "A", "L", " ",
       "(", "f", "o", "r", "m", "a", "l", ",", " ", "p", "r", "e", "c", "i",
       "s", "e", ",", " ", "b", "u", "s", "i", "n", "e", "s", "s", "-", "l",
       "i", "k", "e", ")", ",", " ", "P", "L", "A", "Y", "F", "U", "L", " ",
       "(", "f", "u", "n", ",", " ", "e", "n", "e", "r", "g", "e", "t", "i",
       "c", ",", " ", "h", "u", "m", "o", "r", "o", "u", "s", ")", ",", " ",
       "T", "E", "C", "H", "N", "I", "C", "A", "L", " ", "(", "d", "e", "t",
       "a", "i", "l", "e", "d", ",", " ", "a", "c", "c", "u", "r", "a", "t",
       "e", ",", " ", "u", "s", "e", "s", " ", "t", "e", "c", "h", "n", "i",
       "c", "a", "l", " ", "t", "e", "r", "m", "s", ")", ".", " ", "C", "h",
       "a", "n", "g", "e", " ", "a", "n", "y", "t", "i", "m", "e", " ", "w",
       "i", "t", "h", " ", "'", "s", "e", "t", " ", "m", "y", " ", "t", "o",
       "n", "e", " ", "t", "o", " ", "[", "s", "t", "y", "l", "e", "]", "'",
       ".", " ", "Y", "o", "u", "r", " ", "t", "o", "n", "e", " ", "a", "f",
       "f", "e", "c", "t", "s", " ", "h", "o", "w", " ", "P", "e", "r", "c",
       "i", "f", "y", " ", "r", "e", "s", "p", "o", "n", "d", "s", " ", "t",
       "o", " ", "a", "l", "l", " ", "y", "o", "u", "r", " ", "m", "e", "s",
       "s", "a", "g", "e", "s", ".">>,
   path |-> <<"/", "d", "o", "c", "s", "/", "c", "u", "s", "t", "o", "m", "i", "z",
             "a", "t", "i", "o", "n", "/", "t", "o", "n", "e">>]

\* server.ts:185-189  percifyDocs.tools
Doc_tools ==
  [key |-> <<"t", "o", "o", "l", "s">>,
   title |-> <<"A", "v", "a", "i", "l", "a", "b", "l", "e", " ", "T", "o", "o", "l",
              "s">>,
   content |->
     <<"P", "e", "r", "c", "i", "f", "y", " ", "h", "a", "s", " ", "4", " ",
       "c", "o", "r", "e", " ", "t", "o", "o", "l", "s", ":", " ", "1", ")",
       " ", "s", "a", "v", "e", "A", "v", "a", "t", "a", "r", "P", "r", "o",
       "f", "i", "l", "e", " ", "-", " ", "C", "r", "e", "a", "t", "e", "/",
       "u", "p", "d", "a", "t", "e", " ", "y", "o", "u", "r", " ", "a", "v",
       "a", "t", "a", "r", " ", "(", "n", "a", "m", "e", ",", " ", "b", "i",
       "o", ",", " ", "t", "o", "n", "e", ",", " ", "e", "x", "p", "e", "r",
       "t", "i", "s", "e", ")", ".", " ", "2", ")", " ", "s", "a", "v", "e",
       "M", "e", "m", "o", "r", "y", " ", "-", " ", "S", "t", "o", "r", "e",
       " ", "p", "r", "e", "f", "e", "r", "e", "n", "c", "e", "s", ",", " ",
       "t", "a", "s", "k", "s", ",", " ", "o", "r", " ", "n", "o", "t", "e",
       "s", ".", " ", "3", ")", " ", "r", "e", "s", "e", "a", "r", "c", "h",
       "W", "e", "b", " ", "-", " ", "L", "o", "o", "k", " ", "u", "p", " ",
       "i", "n", "f", "o", "r", "m", "a", "t", "i", "o", "n", " ", "f", "r",
       "o", "m", " ", "P", "e", "r", "c", "i", "f", "y", " ", "d", "o", "c",
       "s", ".", " ", "4", ")", " ", "g", "e", "t", "A", "v", "a", "t", "a",
       "r", "S", "t", "a", "t", "e", " ", "-", " ", "V", "i", "e", "w", " ",
       "c", "u", "r", "r", "e", "n", "t", " ", "a", "v", "a", "t", "a", "r",
       " ", "a", "n", "d", " ", "r", "e", "c", "e", "n", "t", " ", "m", "e",
       "m", "o", "r", "i", "e", "s", ".", " ", "P", "l", "u", "s", " ", "s",
       "c", "h", "e", "d", "u", "l", "i", "n", "g", " ", "t", "o", "o", "l",
       "s", " ", "f", "o", "r", " ", "r", "e", "m", "i", "n", "d", "e", "r",
       "s", " ", "a", "n", "d", " ", "r", "e", "c", "u", "r", "r", "i", "n",
       "g", " ", "t", "a", "s", "k", "s", ".">>,
   path |-> <<"/", "d", "o", "c", "s", "/", "t", "o", "o", "l", "s", "-", "r", "e",
             "f", "e", "r", "e", "n", "c", "e">>]

\* server.ts:190-194  percifyDocs.schedule
Doc_schedule ==
  [key |-> <<"s", "c", "h", "e", "d", "u", "l", "e">>,
   title |-> <<"S", "c", "h", "e", "d", "u", "l", "i", "n", "g", " ", "&", " ", "R",
              "e", "m", "i", "n", "d", "e", "r", "s">>,
   content |->
     <<"S", "c", "h", "e", "d", "u", "l", "e", " ", "t", "a", "s", "k", "s",
       " ", "w", "i", "t", "h", " ", "n", "a", "t", "u", "r", "a", "l", " ",
       "l", "a", "n", "g", "u", "a", "g", "e", ":", " ", "'", "r", "e", "m",
       "i", "n", "d", " ", "m", "e", " ", "i", "n", " ", "1", " ", "h", "o",
       "u", "r", " ", "t", "o", " ", "c", "h", "e", "c", "k", " ", "e", "m",
       "a", "i", "l", "'", " ", "o", "r", " ", "'", "s", "c", "h", "e", "d",
       "u", "l", "e", " ", "d", "a", "i", "l", "y", " ", "s", "t", "a", "n",
       "d", "u", "p", " ", "a", "t", " ", "9", "a", "m", "'", ".", " ", "P",
       "e", "r", "c", "i", "f", "y", " ", "u", "s", "e", "s", " ", "C", "l",
       "o", "u", "d", "f", "l", "a", "r", "e", "'", "s", " ", "s", "c", "h",
       "e", "d", "u", "l", "i", "n", "g", " ", "s", "y", "s", "t", "e", "m",
       " ", "f", "o", "r", " ", "r", "e", "l", "i", "a", "b", "l", "e", " ",
       "t", "a", "s", "k", " ", "e", "x", "e", "c", "u", "t", "i", "o", "n",
       ".", " ", "V", "i", "e", "w", " ", "s", "c", "h", "e", "d", "u", "l",
       "e", "d", " ", "t", "a", "s", "k", "s", " ", "w", "i", "t", "h", " ",
       "'", "s", "h", "o", "w", " ", "m", "y", " ", "s", "c", "h", "e", "d",
       "u", "l", "e", "s", "'", " ", "a", "n", "d", " ", "c", "a", "n", "c",
       "e", "l", " ", "w", "i", "t", "h", " ", "'", "c", "a", "n", "c", "e",
       "l", " ", "s", "c", "h", "e", "d", "u", "l", "e", " ", "[", "i", "d",
       "]", "'", ".">>,
   path |-> <<"/", "d", "o", "c", "s", "/", "s", "c", "h", "e", "d", "u", "l", "i",
             "n", "g">>]

\* server.ts:195-199  percifyDocs.getting_started
Doc_getting_started ==
  [key |-> <<"g", "e", "t", "t", "i", "n", "g", "_", "s", "t", "a", "r", "t", "e",
            "d">>,
   title |-> <<"G", "e", "t", "t", "i", "n", "g", " ", "S", "t", "a", "r", "t", "e",
              "d">>,
   content |->
     <<"W", "e", "l", "c", "o", "m", "e", " ", "t", "o", " ", "P", "e", "r",
       "c", "i", "f", "y", "!", " ", "S", "t", "a", "r", "t", " ", "b", "y",
       " ", "c", "r", "e", "a", "t", "i", "n", "g", " ", "y", "o", "u", "r",
       " ", "a", "v", "a", "t", "a", "r", ":", " ", "t", "e", "l", "l", " ",
       "m", "e", " ", "y", "o", "u", "r", " ", "n", "a", "m", "e", " ", "a",
       "n", "d", " ", "p", "r", "e", "f", "e", "r", "r", "e", "d", " ", "t",
       "o", "n", "e", ".", " ", "T", "h", "e", "n", " ", "s", "a", "v", "e",
       " ", "s", "o", "m", "e", " ", "p", "r", "e", "f", "e", "r", "e", "n",
       "c", "e", "s", " ", "s", "o", " ", "I", " ", "r", "e", "m", "e", "m",
       "b", "e", "r", " ", "y", "o", "u", "r", " ", "s", "t", "y", "l", "e",
       ".", " ", "T", "r", "y", ":", " ", "'", "1", ")", " ", "C", "r", "e",
       "a", "t", "e", " ", "a", "v", "a", "t", "a", "r", " ", "n", "a", "m",
       "e", "d", " ", "A", "l", "e", "x", " ", "w", "i", "t", "h", " ", "p",
       "r", "o", "f", "e", "s", "s", "i", "o", "n", "a", "l", " ", "t", "o",
       "n", "e", ",", " ", "2", ")", " ", "R", "e", "m", "e", "m", "b", "e",
       "r", " ", "I", " ", "p", "r", "e", "f", "e", "r", " ", "T", "y", "p",
       "e", "S", "c", "r", "i", "p", "t", ",", " ", "3", ")", " ", "R", "e",
       "s", "e", "a", "r", "c", "h", " ", "h", "o", "w", " ", "m", "e", "m",
       "o", "r", "y", " ", "w", "o", "r", "k", "s", "'", ".", " ", "Y", "o",
       "u", "r", " ", "d", "a", "t", "a", " ", "p", "e", "r", "s", "i", "s",
       "t", "s", " ", "a", "c", "r", "o", "s", "s", " ", "s", "e", "s", "s",
       "i", "o", "n", "s", "!">>,
   path |-> <<"/", "d", "o", "c", "s", "/", "g", "e", "t", "t", "i", "n", "g", "-",
             "s", "t", "a", "r", "t", "e", "d">>]

\* server.ts:200-204  percifyDocs.architecture
Doc_architecture ==
  [key |-> <<"a", "r", "c", "h", "i", "t", "e", "c", "t", "u", "r", "e">>,
   title |-> <<"T", "e", "c", "h", "n", "i", "c", "a", "l", " ", "A", "r", "c", "h",
              "i", "t", "e", "c", "t", "u", "r", "e">>,
   content |->
     <<"P", "e", "r", "c", "i", "f", "y", " ", "r", "u", "n", "s", " ", "o",
       "n", " ", "C", "l", "o", "u", "d", "f", "l", "a", "r", "e", "'", "s",
       " ", "e", "d", "g", "e", " ", "n", "e", "t", "w", "o", "r", "k", " ",
       "u", "s", "i", "n", "g", ":", " ", "W", "o", "r", "k", "e", "r", "s",
       " ", "A", "I", " ", "(", "L", "l", "a", "m", "a", " ", "3", ".", "3",
       " ", "7", "0", "B", " ", "m", "o", "d", "e", "l", " ", "f", "o", "r",
       " ", "i", "n", "f", "e", "r", "e", "n", "c", "e", ")", ",", " ", "D",
       "u", "r", "a", "b", "l", "e", " ", "O", "b", "j", "e", "c", "t", "s",
       " ", "(", "p", "e", "r", "s", "i", "s", "t", "e", "n", "t", " ", "s",
       "t", "a", "t", "e", " ", "s", "t", "o", "r", "a", "g", "e", ")", ",",
       " ", "W", "e", "b", "S", "o", "c", "k", "e", "t", "s", " ", "(", "r",
       "e", "a", "l", "-", "t", "i", "m", "e", " ", "c", "h", "a", "t", ")",
       ",", " ", "a", "n", "d", " ", "t", "h", "e", " ", "A", "g", "e", "n",
       "t", "s", " ", "S", "D", "K", " ", "(", "o", "r", "c", "h", "e", "s",
       "t", "r", "a", "t", "i", "o", "n", ")", ".", " ", "S", "t", "a", "t",
       "e", " ", "i", "s", " ", "s", "t", "o", "r", "e", "d", " ", "i", "n",
       " ", "S", "Q", "L", "i", "t", "e", " ", "w", "i", "t", "h", "i", "n",
       " ", "D", "u", "r", "a", "b", "l", "e", " ", "O", "b", "j", "e", "c",
       "t", "s", " ", "f", "o", "r", " ", "l", "o", "w", "-", "l", "a", "t",
       "e", "n", "c", "y", " ", "g", "l", "o", "b", "a", "l", " ", "a", "c",
       "c", "e", "s", "s", ".">>,
   path |-> <<"/", "d", "o", "c", "s", "/", "a", "r", "c", "h", "i", "t", "e", "c",
             "t", "u", "r", "e">>]

\* server.ts:205-209  percifyDocs.api
Doc_api ==
  [key |-> <<"a", "p", "i">>,
   title |-> <<"A", "P", "I", " ", "R", "e", "f", "e", "r", "e", "n", "c", "e">>,
   content |->
     <<"R", "E", "S", "T", " ", "E", "n", "d", "p", "o", "i", "n", "t", "s",
       ":", " ", "G", "E", "T", " ", "/", "a", "p", "i", "/", "a", "v", "a",
       "t", "a", "r", "-", "s", "t", "a", "t", "e", " ", "r", "e", "t", "u",
       "r", "n", "s", " ", "c", "u", "r", "r", "e", "n", "t", " ", "a", "v",
       "a", "t", "a", "r", " ", "a", "n", "d", " ", "l", "a", "s", "t", " ",
       "5", " ", "m", "e", "m", "o", "r", "i", "e", "s", ".", " ", "G", "E",
       "T", " ", "/", "c", "h", "e", "c", "k", "-", "o", "p", "e", "n", "-",
       "a", "i", "-", "k", "e", "y", " ", "r", "e", "t", "u", "r", "n", "s",
       " ", "p", "r", "o", "v", "i", "d", "e", "r", " ", "s", "t", "a", "t",
       "u", "s", ".", " ", "W", "e", "b", "S", "o", "c", "k", "e", "t", " ",
       "c", "o", "n", "n", "e", "c", "t", "s", " ", "a", "t", " ", "/", "c",
       "h", "a", "t", " ", "f", "o", "r", " ", "r", "e", "a", "l", "-", "t",
       "i", "m", "e", " ", "m", "e", "s", "s", "a", "g", "i", "n", "g", ".",
       " ", "A", "l", "l", " ", "e", "n", "d", "p", "o", "i", "n", "t", "s",
       " ", "r", "e", "t", "u", "r", "n", " ", "J", "S", "O", "N", ".", " ",
       "A", "u", "t", "h", "e", "n", "t", "i", "c", "a", "t", "i", "o", "n",
       " ", "i", "s", " ", "h", "a", "n", "d", "l", "e", "d", " ", "p", "e",
       "r", "-", "s", "e", "s", "s", "i", "o", "n", " ", "v", "i", "a", " ",
       "D", "u", "r", "a", "b", "l", "e", " ", "O", "b", "j", "e", "c", "t",
       " ", "I", "D", "s", ".">>,
   path |-> <<"/", "d", "o", "c", "s", "/", "a", "p", "i", "-", "r", "e", "f", "e",
             "r", "e", "n", "c", "e">>]

\* server.ts:210-214  percifyDocs.expertise
Doc_expertise ==
  [key |-> <<"e", "x", "p", "e", "r", "t", "i", "s", "e">>,
   title |-> <<"E", "x", "p", "e", "r", "t", "i", "s", "e", " ", "T", "a", "g", "s">>,
   content |->
     <<"A", "d", "d", " ", "e", "x", "p", "e", "r", "t", "i", "s", "e", " ",
       "t", "a", "g", "s", " ", "t", "o", " ", "y", "o", "u", "r", " ", "a",
       "v", "a", "t", "a", "r", " ", "t", "o", " ", "h", "e", "l", "p", " ",
       "P", "e", "r", "c", "i", "f", "y", " ", "u", "n", "d", "e", "r", "s",
       "t", "a", "n", "d", " ", "y", "o", "u", "r", " ", "b", "a", "c", "k",
       "g", "r", "o", "u", "n", "d", ".", " ", "E", "x", "a", "m", "p", "l",
       "e", "s", ":", " ", "'", "T", "y", "p", "e", "S", "c", "r", "i", "p",
       "t", "'", ",", " ", "'", "R", "e", "a", "c", "t", "'", ",", " ", "'",
       "D", "e", "v", "O", "p", "s", "'", ",", " ", "'", "M", "a", "c", "h",
       "i", "n", "e", " ", "L", "e", "a", "r", "n", "i", "n", "g", "'", ".",
       " ", "S", "e", "t", " ", "w", "i", "t", "h", " ", "'", "m", "y", " ",
       "e", "x", "p", "e", "r", "t", "i", "s", "e", " ", "i", "s", " ", "[",
       "t", "a", "g", "1", "]", ",", " ", "[", "t", "a", "g", "2", "]", ",",
       " ", "[", "t", "a", "g", "3", "]", "'", ".", " ", "T", "a", "g", "s",
       " ", "h", "e", "l", "p", " ", "c", "o", "n", "t", "e", "x", "t", "u",
       "a", "l", "i", "z", "e", " ", "r", "e", "s", "p", "o", "n", "s", "e",
       "s", " ", "a", "n", "d", " ", "c", "a", "n", " ", "b", "e", " ", "u",
       "s", "e", "d", " ", "f", "o", "r", " ", "p", "e", "r", "s", "o", "n",
       "a", "l", "i", "z", "e", "d", " ", "r", "e", "c", "o", "m", "m", "e",
       "n", "d", "a", "t", "i", "o", "n", "s", ".">>,
   path |-> <<"/", "d", "o", "c", "s", "/", "c", "u", "s", "t", "o", "m", "i", "z",
             "a", "t", "i", "o", "n", "/", "e", "x", "p", "e", "r", "t", "i", "s",
             "e">>]

\* server.ts:215-219  percifyDocs.troubleshooting
Doc_troubleshooting ==
  [key |-> <<"t", "r", "o", "u", "b", "l", "e", "s", "h", "o", "o", "t", "i", "n",
            "g">>,
   title |-> <<"T", "r", "o", "u", "b", "l", "e", "s", "h", "o", "o", "t", "i", "n",
              "g">>,
   content |->
     <<"C", "o", "m", "m", "o", "n", " ", "i", "s", "s", "u", "e", "s", ":",
       " ", "1", ")", " ", "A", "v", "a", "t", "a", "r", " ", "n", "o", "t",
       " ", "s", "a", "v", "i", "n", "g", "?", " ", "E", "n", "s", "u", "r",
       "e", " ", "y", "o", "u", " ", "p", "r", "o", "v", "i", "d", "e", " ",
       "a", "t", " ", "l", "e", "a", "s", "t", " ", "a", " ", "n", "a", "m",
       "e", ".", " ", "2", ")", " ", "M", "e", "m", "o", "r", "i", "e", "s",
       " ", "f", "u", "l", "l", "?", " ", "O", "l", "d", "e", "s", "t", " ",
       "a", "r", "e", " ", "a", "u", "t", "o", "-", "d", "e", "l", "e", "t",
       "e", "d", " ", "a", "f", "t", "e", "r", " ", "5", "0", " ", "i", "t",
       "e", "m", "s", ".", " ", "3", ")", " ", "S", "l", "o", "w", " ", "r",
       "e", "s", "p", "o", "n", "s", "e", "s", "?", " ", "C", "h", "e", "c",
       "k", " ", "n", "e", "t", "w", "o", "r", "k", " ", "c", "o", "n", "n",
       "e", "c", "t", "i", "o", "n", ".", " ", "4", ")", " ", "W", "r", "o",
       "n", "g", " ", "t", "o", "n", "e", "?", " ", "S", "a", "y", " ", "'",
       "c", "h", "a", "n", "g", "e", " ", "t", "o", "n", "e", " ", "t", "o",
       " ", "[", "s", "t", "y", "l", "e", "]", "'", ".", " ", "5", ")", " ",
       "R", "e", "s", "e", "t", " ", "e", "v", "e", "r", "y", "t", "h", "i",
       "n", "g", "?", " ", "S", "a", "y", " ", "'", "r", "e", "s", "e", "t",
       " ", "m", "y", " ", "a", "v", "a", "t", "a", "r", "'", " ", "t", "o",
       " ", "s", "t", "a", "r", "t", " ", "f", "r", "e", "s", "h", ".">>,
   path |-> <<"/", "d", "o", "c", "s", "/", "t", "r", "o", "u", "b", "l", "e", "s",
             "h", "o", "o", "t", "i", "n", "g">>]

\* server.ts:169-220  percifyDocs, in the order Object.entries enumerates it
percifyDocs ==
  <<Doc_avatar,
    Doc_memory,
    Doc_tone,
    Doc_tools,
    Doc_schedule,
    Doc_getting_started,
    Doc_architecture,
    Doc_api,
    Doc_expertise,
    Doc_troubleshooting>>

----------------------------------------------------------------------------
(* String operations used by researchWeb. *)

UpperCase ==
  <<"A", "B", "C", "D", "E", "F", "G", "H", "I", "J", "K", "L", "M",
    "N", "O", "P", "Q", "R", "S", "T", "U", "V", "W", "X", "Y", "Z">>

LowerCase ==
  <<"a", "b", "c", "d", "e", "f", "g", "h", "i", "j", "k", "l", "m",
    "n", "o", "p", "q", "r", "s", "t", "u", "v", "w", "x", "y", "z">>

\* String.prototype.toLowerCase on one character.
LowerChar(c) ==
  IF \E i \in 1..Len(UpperCase) : UpperCase[i] = c
  THEN LowerCase[CHOOSE i \in 1..Len(UpperCase) : UpperCase[i] = c]
  ELSE c

\* String.prototype.toLowerCase, character by character.
ToLowerCase(s) == SubSeq([i \in 1..Len(s) |-> LowerChar(s[i])], 1, Len(s))

\* String.prototype.includes: p occurs in s as a contiguous substring.
Includes(s, p) ==
  \E i \in 0..(Len(s) - Len(p)) : \A j \in 1..Len(p) : s[i + j] = p[j]

\* The characters the class \s matches, among those the model uses.
IsSpace(c) == c \in {" ", "\t", "\n"}

\* String.prototype.split(/\s+/): the pieces between maximal runs of white
\* space; a leading or trailing run gives an empty first or last piece.
RECURSIVE SplitScan(_, _, _, _, _)
SplitScan(s, i, cur, acc, inRun) ==
  IF i > Len(s) THEN Append(acc, cur)
  ELSE IF IsSpace(s[i])
       THEN IF inRun THEN SplitScan(s, i + 1, cur, acc, TRUE)
            ELSE SplitScan(s, i + 1, <<>>, Append(acc, cur), TRUE)
       ELSE SplitScan(s, i + 1, Append(cur, s[i]), acc, FALSE)

SplitWhitespace(s) == SplitScan(s, 1, <<>>, <<>>, FALSE)

\* doc.title.toLowerCase() and doc.content.toLowerCase(), for every entry.
LoweredDocs ==
  SubSeq([i \in 1..Len(percifyDocs) |->
            [title |-> ToLowerCase(percifyDocs[i].title),
             content |-> ToLowerCase(percifyDocs[i].content)]],
         1, Len(percifyDocs))

----------------------------------------------------------------------------
(* researchWeb (server.ts:225-272). *)

\* server.ts:228  baseUrl
baseUrl ==
  <<"h", "t", "t", "p", "s", ":", "/", "/", "d", "o", "c", "s", ".",
    "p", "e", "r", "c", "i", "f", "y", ".", "i", "o">>

\* server.ts:245-250  the loop over the words of the query, from word w on
RECURSIVE WordScore(_, _, _, _)
WordScore(queryWords, w, key, contentLower) ==
  IF w > Len(queryWords) THEN 0
  ELSE LET word == queryWords[w]
       IN  (IF Len(word) > 2
            THEN (IF Includes(key, word) THEN 2 ELSE 0)
                 + (IF Includes(contentLower, word) THEN 1 ELSE 0)
            ELSE 0)
           + WordScore(queryWords, w + 1, key, contentLower)

\* A bug researchWeb could have: a query that names a key earns nothing for it.
DocScoreNoKeyBonus(queryLower, i) ==
  (IF Includes(LoweredDocs[i].title, queryLower) THEN 5 ELSE 0)
  + (IF Includes(LoweredDocs[i].content, queryLower) THEN 3 ELSE 0)
  + WordScore(SplitWhitespace(queryLower), 1, percifyDocs[i].key,
              LoweredDocs[i].content)

\* server.ts:236-250  the score of entry i for the lower-cased query
DocScore(queryLower, i) ==
  LET key == percifyDocs[i].key
  IN  (IF Includes(queryLower, key) THEN 10 ELSE 0)
      + (IF Includes(LoweredDocs[i].title, queryLower) THEN 5 ELSE 0)
      + (IF Includes(LoweredDocs[i].content, queryLower) THEN 3 ELSE 0)
      + WordScore(SplitWhitespace(queryLower), 1, key, LoweredDocs[i].content)

\* A bug researchWeb could have: a later entry wins a tie.
ReplacesBestOnTie(score, matchScore) == score >= matchScore

\* server.ts:252  if (score > matchScore)
ReplacesBest(score, matchScore) == score > matchScore

\* server.ts:235-256  the loop over the entries, from entry i on
RECURSIVE ScanDocs(_, _, _, _)
ScanDocs(queryLower, i, bestMatch, matchScore) ==
  IF i > Len(percifyDocs)
  THEN [bestMatch |-> bestMatch, matchScore |-> matchScore]
  ELSE LET score == DocScore(queryLower, i)
       IN  IF ReplacesBest(score, matchScore)
           THEN ScanDocs(queryLower, i + 1, <<i>>, score)
           ELSE ScanDocs(queryLower, i + 1, bestMatch, matchScore)

\* A bug researchWeb could have: a score of 1 counts as a good match.
NoGoodMatchBelowOne(bestMatch, matchScore) == Len(bestMatch) = 0 \/ matchScore < 1

\* server.ts:259  if (!bestMatch || matchScore < 2)
NoGoodMatch(bestMatch, matchScore) == Len(bestMatch) = 0 \/ matchScore < 2

\* server.ts:260  this.percifyDocs.getting_started
GettingStarted ==
  CHOOSE i \in 1..Len(percifyDocs) : percifyDocs[i].key = Doc_getting_started.key

\* server.ts:269  the snippet template: book emoji, title in bold, site, content
Snippet(doc) ==
  <<"U+1F4DA", " ", "*", "*">> \o doc.title
  \o <<"*", "*", " ", "(", "d", "o", "c", "s", ".", "p", "e", "r", "c", "i",
       "f", "y", ".", "i", "o", ")", "\n", "\n">>
  \o doc.content

\* A bug researchWeb could have: bestMatch and matchScore kept on the
\* instance, so that a search starts from the best match of the one before.
SelectedDocCarried(query) ==
  LET start == IF lastCall.op = "researchWeb"
               THEN ScanDocs(ToLowerCase(lastCall.query), 1, <<>>, 0)
               ELSE [bestMatch |-> <<>>, matchScore |-> 0]
      scan == ScanDocs(ToLowerCase(query), 1, start.bestMatch, start.matchScore)
  IN  IF NoGoodMatch(scan.bestMatch, scan.matchScore)
      THEN GettingStarted
      ELSE scan.bestMatch[1]

\* server.ts:229-261  the entry researchWeb(query) answers with
SelectedDoc(query) ==
  LET scan == ScanDocs(ToLowerCase(query), 1, <<>>, 0)
  IN  IF NoGoodMatch(scan.bestMatch, scan.matchScore)
      THEN GettingStarted
      ELSE scan.bestMatch[1]

\* server.ts:225-272  researchWeb
researchWeb(query) ==
  LET bestMatch == percifyDocs[SelectedDoc(query)]
  IN  [query |-> query,
       snippet |-> Snippet(bestMatch),
       sourceUrl |-> baseUrl \o bestMatch.path]

----------------------------------------------------------------------------
(* Queries of the model: words joined by single spaces. *)

\* Words a query is made of, at most.
MaxWords == 2

\* The empty word gives leading, trailing and doubled spaces; the others mix
\* case, keys, words of a key, words found only in contents, short words and
\* words found nowhere.
Vocabulary ==
  {<<>>, <<"\t">>, <<"T", "o", "n", "e">>, <<"m", "e", "m", "o", "r", "y">>,
   <<"d", "a", "r", "k">>, <<"x", "q">>, <<"z", "z", "z">>,
   <<"s", "t", "a", "r", "t">>, <<"s", "e", "t">>, <<"a", "p", "i">>}

RECURSIVE JoinWords(_)
JoinWords(ws) ==
  IF Len(ws) = 0 THEN <<>>
  ELSE IF Len(ws) = 1 THEN ws[1]
  ELSE ws[1] \o <<" ">> \o JoinWords(Tail(ws))

\* The word lists the next researchWeb call of the model may be given: the
\* last one again, or the last one with one more word.
NextWordLists ==
  IF lastCall.op = "researchWeb"
  THEN {lastCall.words} \cup
       {Append(lastCall.words, w) : w \in
          IF Len(lastCall.words) < MaxWords THEN Vocabulary ELSE {}}
  ELSE {<<w>> : w \in Vocabulary}

\* The effect of researchWeb(query) on the store variables, the query being
\* the words ws joined by spaces.
DoResearchWeb(ws) ==
  /\ lastCall' = [op |-> "researchWeb", query |-> JoinWords(ws), words |-> ws]
  /\ ret' = researchWeb(JoinWords(ws))
  /\ prev' = state
  /\ UNCHANGED <<state, pc, nextId, now, created>>

ResearchWeb ==
  /\ pc = "ready"
  /\ \E ws \in NextWordLists : DoResearchWeb(ws)
  /\ UNCHANGED turnVars
  /\ UNCHANGED pipeVars
  /\ UNCHANGED sideVars

NextSearch == ResearchWeb

SpecSearch == InitFresh /\ [][NextSearch]_vars

----------------------------------------------------------------------------
(* The system prompt (server.ts:277-353). Of the prompt the model keeps the *)
(* parts that are computed: the tone directive, the date handed to          *)
(* getSchedulePrompt and the context block built from this.state.          *)

\* server.ts:309-314
toneInstructions ==
  [casual |-> "Be friendly, relaxed, and approachable. Use conversational language.",
   professional |-> "Be formal, precise, and business-like. Maintain a professional demeanor.",
   playful |-> "Be fun, energetic, and use humor when appropriate. Keep things light.",
   technical |-> "Be detailed, accurate, and use technical terminology. Focus on precision."]

\* server.ts:279 and :296, the memories shown in the prompt.
PromptMemories == 3

\* Array.prototype.join(", ")
RECURSIVE JoinTags(_)
JoinTags(tags) ==
  IF Len(tags) = 0 THEN <<>>
  ELSE IF Len(tags) = 1 THEN <<tags[1]>>
  ELSE <<tags[1], ", ">> \o JoinTags(Tail(tags))

\* server.ts:285-288, the lines of a stored avatar.
AvatarLines(avatar) ==
  [name |-> avatar.displayName,
   bio |-> IF avatar.bio # "" THEN avatar.bio ELSE "Not set",
   tone |-> avatar.tone,
   expertise |-> IF Len(avatar.expertiseTags) > 0
                 THEN JoinTags(avatar.expertiseTags)
                 ELSE <<"None specified">>]

\* server.ts:296, the line of one memory.
MemoryLine(mem) ==
  [type |-> mem.type, content |-> mem.content, date |-> [of |-> mem.createdAt]]

\* server.ts:279  this.state.memories.slice(-3)
PromptRecentMemories(ms) == SliceFrom(ms, 0 - PromptMemories)

\* server.ts:277-302  buildContextString: avatar is <<>> for the line "No
\* avatar profile set yet", memories is <<>> for "No memories stored yet".
buildContextString(s) ==
  LET recentMemories == PromptRecentMemories(s.memories)
  IN  [avatar |-> IF Len(s.avatar) = 1 THEN <<AvatarLines(s.avatar[1])>> ELSE <<>>,
       memories |-> [i \in 1..Len(recentMemories) |-> MemoryLine(recentMemories[i])]]

\* server.ts:308  this.state.avatar?.tone || "casual"
PromptTone(s) == OrStr(CurField(s.avatar, "tone"), <<"casual">>)[1]

\* server.ts:307-353  getSystemPrompt, date being new Date().
getSystemPrompt(s, date) ==
  LET tone == PromptTone(s)
  IN  [tone |-> tone,
       directive |-> IF tone \in DOMAIN toneInstructions
                     THEN toneInstructions[tone] ELSE "undefined",
       date |-> date,
       context |-> buildContextString(s)]

GetSystemPromptCall ==
  /\ pc = "ready"
  /\ lastCall' = [op |-> "getSystemPrompt"]
  /\ ret' = getSystemPrompt(state, now)
  /\ prev' = state
  /\ UNCHANGED <<state, pc, nextId, now, created>>
  /\ UNCHANGED turnVars
  /\ UNCHANGED pipeVars
  /\ UNCHANGED sideVars

----------------------------------------------------------------------------
(* The worker entry point (server.ts:435-466). *)

\* Paths a request can name: the two the worker answers itself and one it
\* routes to the agent.
Pathnames == {"/check-open-ai-key", "/api/avatar-state", "/agents/chat/x"}

\* server.ts:436-465  the responses fetch can give for a path; s is the state
\* of the agent, which the handler does not consult. routeAgentRequest either
\* answers or yields nothing, and then the response is 404.
FetchResponses(pathname, s) ==
  IF pathname = "/check-open-ai-key"
  THEN {[status |-> 200, body |-> [success |-> TRUE, provider |-> "workers-ai"]]}
  ELSE IF pathname = "/api/avatar-state"
  THEN {[status |-> 200,
         body |-> [message |-> "Use WebSocket connection to access avatar state"]]}
  ELSE {[status |-> 101, body |-> [routed |-> TRUE]],
        [status |-> 404, body |-> [text |-> "Not found"]]}

Fetch ==
  /\ \E pathname \in Pathnames :
       \E response \in FetchResponses(pathname, state) :
         /\ lastCall' = [op |-> "fetch", pathname |-> pathname]
         /\ ret' = response
  /\ prev' = state
  /\ UNCHANGED <<state, pc, nextId, now, created>>
  /\ UNCHANGED turnVars
  /\ UNCHANGED pipeVars
  /\ UNCHANGED sideVars

----------------------------------------------------------------------------
(* The agent as its callers see it: the two saves, the reads, the document  *)
(* matcher asked for catalog keys, the prompt builder and the worker's      *)
(* endpoints, in any order.                                                 *)

\* Distinct queries asked in one behaviour of SpecAgent.
MaxAsked == 2

\* Profiles saved in SpecAgent.
AgentProfiles ==
  {[EmptyPartial EXCEPT !.tone = <<"playful">>],
   [EmptyPartial EXCEPT !.displayName = <<"Ada">>]}

\* researchWeb(k) for every key k of the catalog, in catalog order.
KeyAnswers ==
  SubSeq([i \in 1..Len(percifyDocs) |-> researchWeb(percifyDocs[i].key)],
         1, Len(percifyDocs))

\* The keys researchWeb may be asked for next: one asked before; any key
\* while none was asked; and, while fewer than MaxAsked were asked, the key
\* that follows an asked one in the catalog (the first follows the last).
AskableKeys ==
  {i \in 1..Len(percifyDocs) :
     \/ \E a \in answers : a.query = percifyDocs[i].key
     \/ answers = {}
     \/ /\ Cardinality(answers) < MaxAsked
        /\ \E a \in answers :
             a.query = percifyDocs[IF i = 1 THEN Len(percifyDocs) ELSE i - 1].key}

\* The effect of researchWeb(k), k the i-th key of the catalog.
DoResearchKey(i) ==
  /\ lastCall' = [op |-> "researchWeb", query |-> percifyDocs[i].key,
                  words |-> <<percifyDocs[i].key>>]
  /\ ret' = KeyAnswers[i]
  /\ answers' = IF \E a \in answers : a.query = percifyDocs[i].key
                 THEN answers
                 ELSE answers \cup {[query |-> percifyDocs[i].key,
                                     result |-> KeyAnswers[i], at |-> nextId]}
  /\ prev' = state
  /\ UNCHANGED <<state, pc, nextId, now, created>>

ResearchKey ==
  /\ pc = "ready"
  /\ \E i \in AskableKeys : DoResearchKey(i)
  /\ UNCHANGED turnVars
  /\ UNCHANGED pipeVars
  /\ UNCHANGED <<procs, serial>>

SaveAgentProfile ==
  /\ pc = "ready"
  /\ \E input \in AgentProfiles : DoSaveAvatarProfile(input)
  /\ UNCHANGED turnVars
  /\ UNCHANGED pipeVars
  /\ UNCHANGED sideVars

NextAgent ==
  \/ SaveAgentProfile
  \/ SaveMemory
  \/ GetAvatarStateCall
  \/ ResearchKey
  \/ GetSystemPromptCall
  \/ Fetch

SpecAgent == InitFresh /\ [][NextAgent]_vars

\* C11: a GET of /api/avatar-state answers with the avatar and the last five
\* memories of the agent, after any sequence of saves.
C11_EndpointReturnsState ==
  (lastCall.op = "fetch" /\ lastCall.pathname = "/api/avatar-state") =>
     ret.body = GetAvatarState(state)

\* The key of the catalog the last researchWeb call was asked for, 0 if none.
AskedKey ==
  IF lastCall.op = "researchWeb" /\ \E i \in 1..Len(percifyDocs) :
                                      percifyDocs[i].key = lastCall.query
  THEN CHOOSE i \in 1..Len(percifyDocs) : percifyDocs[i].key = lastCall.query
  ELSE 0

\* The scores of all entries for every key taken as the query.
KeyScores ==
  SubSeq([k \in 1..Len(percifyDocs) |->
            SubSeq([j \in 1..Len(percifyDocs) |->
                      DocScore(ToLowerCase(percifyDocs[k].key), j)],
                   1, Len(percifyDocs))],
         1, Len(percifyDocs))

\* C12: a query that is exactly a catalog key is answered with the entry of
\* that key, for every key: the entry scores at least 10 and more than any
\* other entry.
C12_KeyResolvesToOwnEntry ==
  AskedKey # 0 =>
    /\ ret.query = percifyDocs[AskedKey].key
    /\ ret.sourceUrl = baseUrl \o percifyDocs[AskedKey].path
    /\ ret.snippet = Snippet(percifyDocs[AskedKey])
    /\ KeyScores[AskedKey][AskedKey] >= 10
    /\ \A j \in 1..Len(percifyDocs) :
         j # AskedKey => KeyScores[AskedKey][j] < KeyScores[AskedKey][AskedKey]

\* C12 witness: the query "tone" was answered with the tone entry, which two
\* other entries match in part.
C12_Witness ==
  /\ AskedKey # 0
  /\ percifyDocs[AskedKey] = Doc_tone
  /\ ret.sourceUrl = baseUrl \o Doc_tone.path
  /\ \E j \in 1..Len(percifyDocs) : j # AskedKey /\ KeyScores[AskedKey][j] > 0

C20_Frame ==
  /\ lastCall.op = "saveMemory" => state.avatar = prev.avatar
  /\ lastCall.op = "saveAvatarProfile" => state.memories = prev.memories
  /\ lastCall.op \in {"getAvatarState", "researchWeb", "getSystemPrompt"} =>
       state = prev

\* C20 witness: saveAvatarProfile has changed the avatar of a state that
\* holds a memory.
C20_Witness ==
  /\ lastCall.op = "saveAvatarProfile"
  /\ Len(prev.memories) > 0
  /\ state.avatar # prev.avatar
  /\ state.memories = prev.memories

----------------------------------------------------------------------------
(* Startup over a slot that an earlier deployment filled: the memories      *)
(* array can be longer than the cap of this one.                            *)

\* A stored list of n memories.
StoredRun(n) ==
  [i \in 1..n |-> [id |-> 0 - i, createdAt |-> 0, type |-> "note", content |-> "a"]]

\* The lengths of the stored list: empty, at the cap, past the cap.
StoredLengths == {0, MemCap, MemCap + 1}

InitRestart ==
  /\ state \in {[kind |-> "object", avatar |-> a, memories |-> StoredRun(n),
                 memoriesIsArray |-> TRUE] :
                  a \in Opt(StoredAvatars), n \in StoredLengths}
  /\ pc = "boot"
  /\ nextId = 1
  /\ now = 1
  /\ lastCall = NoCall
  /\ ret = <<>>
  /\ prev = state
  /\ created = <<>>
  /\ TurnInit

NextRestart == OnStart \/ SaveAgentProfile \/ SaveMemory \/ GetAvatarStateCall

SpecRestart == InitRestart /\ [][NextRestart]_vars

----------------------------------------------------------------------------
(* Handlers that run concurrently: the tool calls of one step are started   *)
(* together. A handler of the agent runs on the single thread of the agent  *)
(* and gives up the thread only where it awaits; saveAvatarProfile          *)
(* (server.ts:114-133), saveMemory (server.ts:138-163) and getAvatarState   *)
(* (server.ts:104-109) contain no await. Each saving handler is modelled in *)
(* two steps, the read of this.state that computes the new field and the    *)
(* setState that writes it, so that an interleaving between the two is      *)
(* excluded by the scheduling alone.                                        *)

\* Handlers started together, at most.
MaxProcs == 3

\* The calls that can be started together.
ConcurrentCalls ==
  {[tool |-> "saveMemory", type |-> "note", content |-> "a"],
   [tool |-> "saveAvatarProfile",
    input |-> [EmptyPartial EXCEPT !.tone = <<"playful">>]],
   [tool |-> "saveAvatarProfile",
    input |-> [EmptyPartial EXCEPT !.displayName = <<"Ada">>]],
   [tool |-> "getAvatarState"]}

\* A bug the saving handlers could have: an await between the read of
\* this.state and setState.
HandlerAwaits(tool) == tool \in {"saveMemory", "saveAvatarProfile"}

\* server.ts:114-133, 138-163  whether the handler awaits between its read of
\* this.state and its setState: none does.
HandlerYields(tool) == FALSE

\* The thread is free for handler i: no other handler is between its read
\* and its write, except where it awaits.
ThreadFreeFor(i) ==
  \A j \in 1..Len(procs) :
    (j # i /\ procs[j].at = "mid") => HandlerYields(procs[j].call.tool)

\* One step starts its tool calls together.
Dispatch ==
  /\ pc = "ready"
  /\ procs = <<>>
  /\ \E n \in 2..MaxProcs :
       \E calls \in [1..n -> ConcurrentCalls] :
         procs' = [i \in 1..n |-> [call |-> calls[i], at |-> "start", local |-> <<>>]]
  /\ serial' = state
  /\ UNCHANGED storeVars
  /\ UNCHANGED turnVars
  /\ UNCHANGED pipeVars
  /\ UNCHANGED answers

\* server.ts:117-124  saveAvatarProfile reads this.state.avatar and builds
\* updatedAvatar.
BeginSaveAvatarProfile(i) ==
  LET cur == state.avatar
      updatedAvatar == UpdatedAvatar(cur, procs[i].call.input, nextId)
  IN  /\ procs' = [procs EXCEPT ![i].at = "mid",
                                ![i].local = <<[value |-> updatedAvatar, fresh |-> nextId]>>]
      /\ nextId' = IF Len(cur) = 1 THEN nextId ELSE nextId + 1
      /\ UNCHANGED <<state, pc, now, lastCall, ret, prev, created, serial>>

\* server.ts:126-132  saveAvatarProfile writes {...this.state, avatar} and
\* returns.
CommitSaveAvatarProfile(i) ==
  LET local == procs[i].local[1]
  IN  /\ state' = [state EXCEPT !.avatar = <<local.value>>]
      /\ serial' = [serial EXCEPT !.avatar =
                      <<UpdatedAvatar(serial.avatar, procs[i].call.input, local.fresh)>>]
      /\ procs' = [procs EXCEPT ![i].at = "done"]
      /\ lastCall' = [op |-> "saveAvatarProfile", input |-> procs[i].call.input]
      /\ ret' = local.value
      /\ prev' = state
      /\ UNCHANGED <<pc, nextId, now, created>>

\* server.ts:140-154  saveMemory builds newMemory, reads this.state.memories
\* and builds updatedMemories.
BeginSaveMemory(i) ==
  LET call == procs[i].call
      newMemory == NewMemory(nextId, now, call.type, call.content)
      updatedMemories == TrimMemories(Append(state.memories, newMemory))
  IN  /\ procs' = [procs EXCEPT ![i].at = "mid",
                                ![i].local = <<[value |-> updatedMemories, fresh |-> newMemory]>>]
      /\ nextId' = nextId + 1
      /\ now' = now + 1
      /\ created' = Append(created, newMemory)
      /\ UNCHANGED <<state, pc, lastCall, ret, prev, serial>>

\* server.ts:156-162  saveMemory writes {...this.state, memories} and returns.
CommitSaveMemory(i) ==
  LET local == procs[i].local[1]
  IN  /\ state' = [state EXCEPT !.memories = local.value]
      /\ serial' = [serial EXCEPT !.memories =
                      TrimMemories(Append(serial.memories, local.fresh))]
      /\ procs' = [procs EXCEPT ![i].at = "done"]
      /\ lastCall' = [op |-> "saveMemory", type |-> procs[i].call.type,
                      content |-> procs[i].call.content]
      /\ ret' = [items |-> RecentMemories(local.value)]
      /\ prev' = state
      /\ UNCHANGED <<pc, nextId, now, created>>

\* A saving handler that was started reads this.state.
BeginHandler ==
  /\ \E i \in 1..Len(procs) :
       /\ procs[i].at = "start"
       /\ ThreadFreeFor(i)
       /\ \/ procs[i].call.tool = "saveAvatarProfile" /\ BeginSaveAvatarProfile(i)
          \/ procs[i].call.tool = "saveMemory" /\ BeginSaveMemory(i)
  /\ UNCHANGED turnVars
  /\ UNCHANGED pipeVars
  /\ UNCHANGED answers

\* A saving handler that has read this.state writes it.
CommitHandler ==
  /\ \E i \in 1..Len(procs) :
       /\ procs[i].at = "mid"
       /\ ThreadFreeFor(i)
       /\ \/ procs[i].call.tool = "saveAvatarProfile" /\ CommitSaveAvatarProfile(i)
          \/ procs[i].call.tool = "saveMemory" /\ CommitSaveMemory(i)
  /\ UNCHANGED turnVars
  /\ UNCHANGED pipeVars
  /\ UNCHANGED answers

\* server.ts:104-109  getAvatarState, started with the others, runs.
ReadHandler ==
  /\ \E i \in 1..Len(procs) :
       /\ procs[i].at = "start"
       /\ procs[i].call.tool = "getAvatarState"
       /\ ThreadFreeFor(i)
       /\ procs' = [procs EXCEPT ![i].at = "done"]
  /\ lastCall' = [op |-> "getAvatarState"]
  /\ ret' = GetAvatarState(state)
  /\ prev' = state
  /\ UNCHANGED <<state, pc, nextId, now, created, serial>>
  /\ UNCHANGED turnVars
  /\ UNCHANGED pipeVars
  /\ UNCHANGED answers

NextConcurrent == Dispatch \/ BeginHandler \/ CommitHandler \/ ReadHandler

SpecConcurrent == InitFresh /\ [][NextConcurrent]_vars

\* C13: the saves are atomic read-modify-writes under every interleaving of
\* the handlers started together: no handler runs while another is between
\* its read and its write, the state is at every moment the one the saves
\* that have written produce run one after the other (no write is lost to a
\* stale read), and every read returns the view of such a state.
C13_AtomicMutations ==
  procs # <<>> =>
    /\ Cardinality({i \in 1..Len(procs) : procs[i].at = "mid"}) <= 1
    /\ state = serial
    /\ lastCall.op = "getAvatarState" => ret = GetAvatarState(serial)
    /\ (\A i \in 1..Len(procs) : procs[i].at = "done") =>
         /\ state.memories = SliceFrom(created, 0 - MemCap)
         /\ \A i \in 1..Len(procs) :
              /\ procs[i].call.tool = "saveAvatarProfile"
              /\ Len(procs[i].call.input.displayName) = 1
              => state.avatar[1].displayName = procs[i].call.input.displayName[1]

\* C13 witness: two saveAvatarProfile calls with different fields and a
\* saveMemory were started together and all have written.
C13_Witness ==
  /\ Len(procs) = 3
  /\ \A i \in 1..Len(procs) : procs[i].at = "done"
  /\ Len(state.memories) = 1
  /\ Len(state.avatar) = 1
  /\ state.avatar[1].displayName = "Ada"
  /\ state.avatar[1].tone = "playful"

----------------------------------------------------------------------------
(* The conversation history and the two passes onChatMessage makes over it  *)
(* before the first inference call (server.ts:373-382). cleanupMessages and *)
(* processToolCalls are imported from ./utils; they are modelled from their *)
(* contracts: the sanitizer removes the trailing tool invocations that have *)
(* no result, the resolver runs the deferred action of every invocation     *)
(* whose confirmation was supplied and forwards no invocation that is still *)
(* unresolved.                                                              *)

\* Messages of a stored history, at most.
MaxHistory == 3

\* What a message of the history can be: a text of the user or of the
\* assistant, or a tool invocation of the assistant that has no result yet
\* ("input-available"), whose confirmation was supplied ("approved"), or that
\* has its result ("output-available").
MessageShapes ==
  {[role |-> "user", part |-> "text", toolState |-> "none"],
   [role |-> "assistant", part |-> "text", toolState |-> "none"],
   [role |-> "assistant", part |-> "tool", toolState |-> "input-available"],
   [role |-> "assistant", part |-> "tool", toolState |-> "approved"],
   [role |-> "assistant", part |-> "tool", toolState |-> "output-available"]}

\* A stored message of shape sh at position i of the history.
StoredMessage(sh, i) ==
  [id |-> 0 - i, role |-> sh.role, part |-> sh.part, toolState |-> sh.toolState,
   text |-> <<>>, createdAt |-> 0]

\* The histories the agent can hold when a turn starts.
Histories ==
  UNION {{[i \in 1..n |-> StoredMessage(shapes[i], i)] :
            shapes \in [1..n -> MessageShapes]} : n \in 0..MaxHistory}

\* A tool invocation that has no matching result.
Unresolved(msg) == msg.part = "tool" /\ msg.toolState = "input-available"

\* A message nothing is left to do for.
FullyResolved(msg) ==
  msg.part = "text" \/ (msg.part = "tool" /\ msg.toolState = "output-available")

\* The fully resolved messages of a history, in their order.
RECURSIVE ResolvedOf(_)
ResolvedOf(h) ==
  IF Len(h) = 0 THEN <<>>
  ELSE IF FullyResolved(h[1]) THEN <<h[1]>> \o ResolvedOf(Tail(h))
  ELSE ResolvedOf(Tail(h))

\* A bug the sanitizer could have: only the last message is looked at.
cleanupLastMessage(h) ==
  IF Len(h) > 0 /\ Unresolved(h[Len(h)]) THEN SubSeq(h, 1, Len(h) - 1) ELSE h

\* ./utils cleanupMessages: the history without its trailing tool
\* invocations that have no result.
RECURSIVE cleanupMessages(_)
cleanupMessages(h) ==
  IF Len(h) > 0 /\ Unresolved(h[Len(h)])
  THEN cleanupMessages(SubSeq(h, 1, Len(h) - 1))
  ELSE h

\* ./utils processToolCalls: an invocation whose confirmation was supplied
\* is executed and has its result; an invocation still without result is not
\* forwarded.
RECURSIVE processToolCalls(_)
processToolCalls(h) ==
  IF Len(h) = 0 THEN <<>>
  ELSE IF Unresolved(h[1]) THEN processToolCalls(Tail(h))
  ELSE IF h[1].part = "tool" /\ h[1].toolState = "approved"
  THEN <<[h[1] EXCEPT !.toolState = "output-available"]>> \o processToolCalls(Tail(h))
  ELSE <<h[1]>> \o processToolCalls(Tail(h))

\* A bug onChatMessage could have: the stored history is handed to streamText.
ModelMessagesRaw(processedMessages, rawMessages) == rawMessages

\* server.ts:386  messages: convertToModelMessages(processedMessages)
ModelMessages(processedMessages, rawMessages) == processedMessages

\* Descriptions a scheduled task can carry.
Descriptions == {"water the plants", "standup"}

\* server.ts:408-420  the synthetic user message of a scheduled task.
TaskMessage(description, id, date) ==
  [id |-> id, role |-> "user", part |-> "text", toolState |-> "none",
   text |-> <<"Running scheduled task: ", description>>, createdAt |-> date]

\* A bug executeTask could have: the stored history is not spread in.
TaskMessagesAlone(msgs, description, id, date) ==
  <<TaskMessage(description, id, date)>>

\* server.ts:406-421  the history executeTask saves.
TaskMessages(msgs, description, id, date) ==
  Append(msgs, TaskMessage(description, id, date))

----------------------------------------------------------------------------
(* The step loop of a turn: onChatMessage hands the resolved history, the   *)
(* system prompt and the tools to streamText with stopWhen: stepCountIs(10) *)
(* (server.ts:384-393). A step is one invocation of the inference           *)
(* collaborator together with the execution of the tool calls it answers    *)
(* with; after a step with tool calls the loop invokes the collaborator     *)
(* again unless the stop condition holds.                                   *)

\* The tool calls the collaborator can ask for: the three tools of the agent.
ToolCalls ==
  {[tool |-> "saveMemory", type |-> "note", content |-> "a"],
   [tool |-> "saveAvatarProfile",
    input |-> [EmptyPartial EXCEPT !.tone = <<"playful">>]],
   [tool |-> "researchWeb", words |-> <<(<<"T", "o", "n", "e">>)>>]}

\* What one invocation of the collaborator can answer with: the final text,
\* a failure, one tool call, or two tool calls at once.
Replies ==
  {[kind |-> "text", calls |-> <<>>], [kind |-> "error", calls |-> <<>>]}
  \cup {[kind |-> "tools", calls |-> <<c>>] : c \in ToolCalls}
  \cup {[kind |-> "tools", calls |-> <<c, d>>] :
          c \in {x \in ToolCalls : x.tool = "saveMemory"},
          d \in {x \in ToolCalls : x.tool = "researchWeb"}}

\* A bug the step loop could have: the cap is checked one step late.
StopAfterCap(steps) == steps > StepCap

\* server.ts:392  stopWhen: stepCountIs(10)
StopWhen(steps) == steps >= StepCap

\* server.ts:359-382  onChatMessage: a turn starts; the history is cleaned
\* and processToolCalls is awaited. The abort signal of _options is not
\* handed on.
OnChatMessage ==
  /\ pc = "ready"
  /\ phase = "IDLE"
  /\ turns' = turns + 1
  /\ phase' = "RESOLVING"
  /\ cleaned' = cleanupMessages(messages)
  /\ stepCount' = 0
  /\ modelCalls' = 0
  /\ toolExecs' = 0
  /\ pending' = <<>>
  /\ aborted' = FALSE
  /\ UNCHANGED storeVars
  /\ UNCHANGED <<messages, modelInput>>
  /\ UNCHANGED sideVars

\* server.ts:405-422  executeTask: the history with the synthetic user
\* message is saved, and saveMessages of the agent library starts a turn on
\* it as onChatMessage does.
ExecuteTask ==
  /\ pc = "ready"
  /\ phase = "IDLE"
  /\ \E description \in Descriptions :
       /\ messages' = TaskMessages(messages, description, nextId, now)
       /\ lastCall' = [op |-> "executeTask", description |-> description]
  /\ nextId' = nextId + 1
  /\ ret' = <<>>
  /\ prev' = state
  /\ turns' = turns + 1
  /\ phase' = "RESOLVING"
  /\ cleaned' = cleanupMessages(messages')
  /\ stepCount' = 0
  /\ modelCalls' = 0
  /\ toolExecs' = 0
  /\ pending' = <<>>
  /\ aborted' = FALSE
  /\ UNCHANGED <<state, pc, now, created>>
  /\ UNCHANGED modelInput
  /\ UNCHANGED sideVars

\* server.ts:377-393  processToolCalls has returned: the system prompt is
\* built and streamText invokes the collaborator for the first step.
StreamText ==
  /\ phase = "RESOLVING"
  /\ modelInput' = <<[system |-> getSystemPrompt(state, now),
                      messages |-> ModelMessages(processToolCalls(cleaned), messages)]>>
  /\ phase' = "AWAIT_MODEL"
  /\ modelCalls' = 1
  /\ UNCHANGED <<stepCount, toolExecs, pending, aborted, turns>>
  /\ UNCHANGED storeVars
  /\ UNCHANGED <<messages, cleaned>>
  /\ UNCHANGED sideVars

\* The invocation in flight returns with one of the given replies: the final
\* text or a failure ends the turn, tool calls are dispatched.
ModelRespondsFrom(replies) ==
  /\ phase = "AWAIT_MODEL"
  /\ \E reply \in replies :
       /\ pending' = reply.calls
       /\ phase' = IF reply.kind = "tools" THEN "EXECUTE_TOOLS" ELSE "DONE"
       /\ stepCount' = IF reply.kind = "text" THEN stepCount + 1 ELSE stepCount
  /\ UNCHANGED <<modelCalls, toolExecs, aborted, turns>>
  /\ UNCHANGED storeVars
  /\ UNCHANGED pipeVars
  /\ UNCHANGED sideVars

ModelResponds == ModelRespondsFrom(Replies)

\* The handler of one tool call, by the name of its tool.
RunTool(call) ==
  CASE call.tool = "saveMemory" -> DoSaveMemory(call.type, call.content)
    [] call.tool = "saveAvatarProfile" -> DoSaveAvatarProfile(call.input)
    [] call.tool = "researchWeb" -> DoResearchWeb(call.words)

\* The next dispatched tool call runs. With the last one the step is
\* complete: the loop stops when the stop condition holds, and invokes the
\* collaborator again otherwise.
ExecuteTool ==
  /\ phase = "EXECUTE_TOOLS"
  /\ RunTool(Head(pending))
  /\ pending' = Tail(pending)
  /\ toolExecs' = toolExecs + 1
  /\ IF Len(pending) > 1
     THEN UNCHANGED <<phase, stepCount, modelCalls>>
     ELSE /\ stepCount' = stepCount + 1
          /\ IF StopWhen(stepCount + 1)
             THEN phase' = "DONE" /\ UNCHANGED modelCalls
             ELSE phase' = "AWAIT_MODEL" /\ modelCalls' = modelCalls + 1
  /\ UNCHANGED <<aborted, turns>>
  /\ UNCHANGED pipeVars
  /\ UNCHANGED sideVars

\* The abort signal of the turn fires. Nothing in onChatMessage reads it.
Abort ==
  /\ phase \in {"RESOLVING", "AWAIT_MODEL", "EXECUTE_TOOLS"}
  /\ ~aborted
  /\ aborted' = TRUE
  /\ UNCHANGED <<phase, stepCount, modelCalls, toolExecs, pending, turns>>
  /\ UNCHANGED storeVars
  /\ UNCHANGED pipeVars
  /\ UNCHANGED sideVars

NextTurn == OnChatMessage \/ StreamText \/ ModelResponds \/ ExecuteTool \/ Abort

\* A dispatched tool handler returns: the steps of ExecuteTool, seen on the
\* counter of executed handlers alone.
ToolReturns == phase = "EXECUTE_TOOLS" /\ toolExecs' = toolExecs + 1

\* processToolCalls returns, the collaborator answers every invocation, if
\* only with a failure, and every dispatched tool handler returns.
SpecTurn ==
  /\ InitFresh
  /\ [][NextTurn]_vars
  /\ WF_vars(StreamText)
  /\ WF_vars(ModelResponds)
  /\ WF_toolExecs(ToolReturns)

----------------------------------------------------------------------------
(* A turn over a stored history: started by a chat message or by a          *)
(* scheduled task, with a collaborator that answers with the final text, a  *)
(* failure or a saveMemory call.                                            *)

BriefReplies ==
  {[kind |-> "text", calls |-> <<>>], [kind |-> "error", calls |-> <<>>],
   [kind |-> "tools",
    calls |-> <<[tool |-> "saveMemory", type |-> "note", content |-> "a"]>>]}

ModelRespondsBriefly == ModelRespondsFrom(BriefReplies)

\* An agent that holds a stored history and whose startup check has run.
InitPipeline ==
  /\ state = initialState
  /\ pc = "ready"
  /\ nextId = 1
  /\ now = 1
  /\ lastCall = NoCall
  /\ ret = <<>>
  /\ prev = initialState
  /\ created = <<>>
  /\ phase = "IDLE"
  /\ stepCount = 0
  /\ modelCalls = 0
  /\ toolExecs = 0
  /\ pending = <<>>
  /\ aborted = FALSE
  /\ turns = 0
  /\ messages \in Histories
  /\ cleaned = <<>>
  /\ modelInput = <<>>
  /\ answers = {}
  /\ procs = <<>>
  /\ serial = <<>>

NextPipeline ==
  \/ OnChatMessage
  \/ ExecuteTask
  \/ StreamText
  \/ ModelRespondsBriefly
  \/ ExecuteTool

\* processToolCalls returns.
SpecPipeline ==
  /\ InitPipeline
  /\ [][NextPipeline]_vars
  /\ WF_vars(StreamText)

\* C16: cleaning a cleaned history changes nothing, and cleaning keeps every
\* fully resolved message of the history, in the order of the history.
C16_SanitizerIdempotent ==
  phase # "IDLE" =>
    /\ cleaned = cleanupMessages(messages)
    /\ cleanupMessages(cleaned) = cleaned
    /\ ResolvedOf(cleaned) = ResolvedOf(messages)

\* C16 witness: a history that ends with two tool invocations without result
\* after a resolved message was cleaned.
C16_Witness ==
  /\ phase # "IDLE"
  /\ Len(messages) = 3
  /\ FullyResolved(messages[1])
  /\ Unresolved(messages[2])
  /\ Unresolved(messages[3])
  /\ cleaned = <<messages[1]>>

\* C17: the turn goes from cleaning to resolving to the first invocation:
\* while processToolCalls is awaited the collaborator has not been invoked;
\* the collaborator is invoked only with a prompt built and with the history
\* processToolCalls made of the cleaned history, which holds no invocation
\* that is unresolved; and the first invocation is entered from the wait for
\* processToolCalls only.
C17_StagesInOrder ==
  /\ [](/\ phase = "RESOLVING" =>
             (modelCalls = 0 /\ modelInput = <<>> /\ cleaned = cleanupMessages(messages))
        /\ modelCalls > 0 =>
             /\ Len(modelInput) = 1
             /\ modelInput[1].messages = processToolCalls(cleanupMessages(messages))
             /\ \A i \in 1..Len(modelInput[1].messages) :
                  FullyResolved(modelInput[1].messages[i])
        /\ (modelCalls = 1 /\ toolExecs = 0) =>
             modelInput[1].system = getSystemPrompt(state, now))
  /\ [][(modelCalls = 0 /\ modelCalls' > 0) =>
          (phase = "RESOLVING" /\ phase' = "AWAIT_MODEL" /\ modelCalls' = 1)]_vars
  /\ [][(phase # "RESOLVING" /\ phase' = "RESOLVING") => phase = "IDLE"]_vars

\* C17 witness: the collaborator was invoked with a history that differs from
\* the stored one and from the cleaned one.
C17_Witness ==
  /\ modelCalls = 1
  /\ Len(modelInput) = 1
  /\ modelInput[1].messages # messages
  /\ modelInput[1].messages # cleaned
  /\ cleaned # messages
  /\ Len(modelInput[1].messages) > 0

\* C14: executeTask appends exactly one user message that carries the
\* description of the task to the end of the history and keeps the earlier
\* messages in their order; the turn then runs on the extended history: it is
\* cleaned, resolved and handed to the collaborator with the new message in
\* it.
C14_TaskAppendsAndRuns ==
  /\ [][(lastCall'.op = "executeTask" /\ turns' = turns + 1) =>
          /\ Len(messages') = Len(messages) + 1
          /\ SubSeq(messages', 1, Len(messages)) = messages
          /\ messages'[Len(messages')].role = "user"
          /\ messages'[Len(messages')].part = "text"
          /\ messages'[Len(messages')].text =
               <<"Running scheduled task: ", lastCall'.description>>
          /\ phase' = "RESOLVING"
          /\ cleaned' = cleanupMessages(messages')]_vars
  /\ [](lastCall.op = "executeTask" => cleaned[Len(cleaned)] = messages[Len(messages)])
  /\ []((lastCall.op = "executeTask" /\ phase = "RESOLVING") =>
          <>(/\ modelCalls >= 1
             /\ Len(modelInput) = 1
             /\ Len(modelInput[1].messages) > 0
             /\ modelInput[1].messages[Len(modelInput[1].messages)]
                  = messages[Len(messages)]))

\* C14 witness: a task was started on a stored history of three messages and
\* the collaborator was invoked on the four.
C14_Witness ==
  /\ lastCall.op = "executeTask"
  /\ Len(messages) = 4
  /\ messages[4].text = <<"Running scheduled task: ", lastCall.description>>
  /\ \A i \in 1..3 : messages[i].id = 0 - i
  /\ modelCalls = 1
  /\ modelInput[1].messages[Len(modelInput[1].messages)] = messages[4]

----------------------------------------------------------------------------
(* Claims about the step loop. *)

\* C4: in one turn the collaborator is invoked at most 10 times, whatever it
\* answers; when the step counter reaches 10 the loop has stopped with no
\* tool call left to run, nothing runs once the turn is DONE, and every turn
\* reaches DONE.
C4_StepCap ==
  /\ [](/\ modelCalls <= StepCap
        /\ stepCount <= StepCap
        /\ stepCount = StepCap => (phase = "DONE" /\ pending = <<>>))
  /\ [][phase = "DONE" =>
          (phase' = "DONE" /\ modelCalls' = modelCalls /\ toolExecs' = toolExecs)]_vars
  /\ [](phase \in {"AWAIT_MODEL", "EXECUTE_TOOLS"} => <>(phase = "DONE"))

\* C4 witness: every one of 10 invocations was answered with tool calls.
C4_Witness ==
  /\ phase = "DONE"
  /\ modelCalls = StepCap
  /\ stepCount = StepCap
  /\ toolExecs >= StepCap

\* C5: once the abort signal of the turn has fired, no further invocation of
\* the collaborator is made and no new EXECUTE_TOOLS transition occurs (tool
\* calls dispatched before may complete).
C5_AbortStopsTurn ==
  [][(aborted /\ aborted') =>
       /\ modelCalls' = modelCalls
       /\ phase' = "EXECUTE_TOOLS" => phase = "EXECUTE_TOOLS"]_vars

----------------------------------------------------------------------------
(* Claims about researchWeb. *)

\* Position a starts a white-space separated token of q.
TokenStart(q, a) == ~IsSpace(q[a]) /\ (a = 1 \/ IsSpace(q[a - 1]))

\* The token of q that starts at position a.
TokenAt(q, a) ==
  LET b == CHOOSE e \in a..Len(q) :
             /\ \A k \in a..e : ~IsSpace(q[k])
             /\ (e = Len(q) \/ IsSpace(q[e + 1]))
  IN  SubSeq(q, a, b)

\* The claimed points of the tokens of q starting at position a or later:
\* for each token longer than 2, +2 if the key contains it and +1 if the
\* lower-cased content contains it.
RECURSIVE ClaimedTokenPoints(_, _, _)
ClaimedTokenPoints(q, a, i) ==
  IF a > Len(q) THEN 0
  ELSE (IF TokenStart(q, a) /\ Len(TokenAt(q, a)) > 2
        THEN (IF Includes(percifyDocs[i].key, TokenAt(q, a)) THEN 2 ELSE 0)
             + (IF Includes(LoweredDocs[i].content, TokenAt(q, a))
                THEN 1 ELSE 0)
        ELSE 0)
       + ClaimedTokenPoints(q, a + 1, i)

\* The score C9 gives entry i for the lower-cased query q.
ClaimedScore(q, i) ==
  (IF Includes(q, percifyDocs[i].key) THEN 10 ELSE 0)
  + (IF Includes(LoweredDocs[i].title, q) THEN 5 ELSE 0)
  + (IF Includes(LoweredDocs[i].content, q) THEN 3 ELSE 0)
  + ClaimedTokenPoints(q, 1, i)

RECURSIVE ClaimedScoresFrom(_, _)
ClaimedScoresFrom(q, i) ==
  IF i > Len(percifyDocs) THEN <<>>
  ELSE <<ClaimedScore(q, i)>> \o ClaimedScoresFrom(q, i + 1)

\* The claimed scores of all entries for the query of the last call.
ClaimedScores == ClaimedScoresFrom(ToLowerCase(lastCall.query), 1)

\* The earliest entry among those of maximum score sc.
EarliestMax(sc) ==
  CHOOSE i \in 1..Len(sc) :
    /\ \A j \in 1..Len(sc) : sc[j] <= sc[i]
    /\ \A j \in 1..(i - 1) : sc[j] < sc[i]

\* The result researchWeb gives when it answers with entry i.
AnswersWith(i) ==
  /\ ret.query = lastCall.query
  /\ ret.sourceUrl = baseUrl \o percifyDocs[i].path
  /\ ret.snippet = Snippet(percifyDocs[i])

\* C9 as stated: researchWeb answers with the entry of maximum score, the
\* earliest one among equals, for every query.
C9_SelectsMaxScore ==
  lastCall.op = "researchWeb" => AnswersWith(EarliestMax(ClaimedScores))

\* C9 amended: whenever the maximum score is at least 2, researchWeb answers
\* with the entry of maximum score, the earliest one among equals.
C9_SelectsMaxScoreFromTwo ==
  lastCall.op = "researchWeb" =>
    LET sc == ClaimedScores
    IN  sc[EarliestMax(sc)] >= 2 => AnswersWith(EarliestMax(sc))

\* C9 witness: two entries tie at the maximum score, the earlier one is the answer.
C9_Witness ==
  /\ lastCall.op = "researchWeb"
  /\ LET sc == ClaimedScores
         i == EarliestMax(sc)
     IN  /\ sc[i] >= 2
         /\ \E j \in (i + 1)..Len(sc) : sc[j] = sc[i]
         /\ AnswersWith(i)
         /\ percifyDocs[i].key = <<"t", "o", "n", "e">>

\* The query of the last call contains no key, is a substring of no title and
\* of no content, and none of its words of length >= 3 occurs in a key or a content.
NothingMatches ==
  LET q == ToLowerCase(lastCall.query)
  IN  \A i \in 1..Len(percifyDocs) :
        /\ ~Includes(q, percifyDocs[i].key)
        /\ ~Includes(LoweredDocs[i].title, q)
        /\ ~Includes(LoweredDocs[i].content, q)
        /\ \A a \in 1..Len(q) :
             (TokenStart(q, a) /\ Len(TokenAt(q, a)) >= 3) =>
               /\ ~Includes(percifyDocs[i].key, TokenAt(q, a))
               /\ ~Includes(LoweredDocs[i].content, TokenAt(q, a))

\* The answer is the "getting started" entry.
AnswersGettingStarted ==
  /\ ret.query = lastCall.query
  /\ ret.sourceUrl =
       baseUrl \o <<"/", "d", "o", "c", "s", "/", "g", "e", "t", "t", "i", "n",
                    "g", "-", "s", "t", "a", "r", "t", "e", "d">>
  /\ Includes(ret.snippet, Doc_getting_started.title)
  /\ Includes(ret.snippet, Doc_getting_started.content)

\* C10: researchWeb answers with the "getting started" entry whenever no entry
\* scores at least 2, in particular for every query that contains no key, is a
\* substring of no title or content and has no word of length >= 3 occurring
\* in a key or a content.
C10_Fallback ==
  lastCall.op = "researchWeb" =>
    LET sc == ClaimedScores
    IN  /\ NothingMatches => sc[EarliestMax(sc)] = 0
        /\ sc[EarliestMax(sc)] < 2 => AnswersGettingStarted

\* C10 witness: a query of two words of length <= 2 that match nothing.
C10_Witness ==
  /\ lastCall.op = "researchWeb"
  /\ lastCall.words = <<(<<"x", "q">>), (<<"\t">>)>>
  /\ NothingMatches
  /\ AnswersGettingStarted

====
